---- MODULE Spec2Model ----
(***************************************************************************)
(* A model of OfficeReader-MCP: the Office-to-Markdown converters          *)
(* (converter.py, excel_converter.py, pptx_converter.py), their output     *)
(* placement in the cache directory and the text they render.              *)
(*                                                                         *)
(* Text is modelled by TLA+ strings, character by character: Len, \o,      *)
(* SubSeq, Head and Tail act on strings as they do on sequences.           *)
(***************************************************************************)
EXTENDS Integers, Sequences, FiniteSets, TLC

VARIABLES
    fmtRuns,    \* the runs of the paragraph handed to the run formatter
    fmtOut,     \* [by, text]: which adapter formatted fmtRuns, and its output
    grid,       \* the rows handed to ExcelConverter._create_markdown_table
    tableOut,   \* [done, text]: the table it rendered
    src,        \* the source file on disk: [name, data]
    fs,         \* the cache directory: [dirs, files]
    last,       \* the latest convert_file call and what it returned or raised
    prev,       \* the call before it
    clock,      \* datetime.now()
    env,        \* [budget: calls left, ioMax: the opens that may fail,
                \*  names: the output_name arguments in use]
    procs,      \* concurrent conversions: process -> [pc, todo]
    planned,    \* the [path, data] writes the begun conversions make
    seen,       \* what a reader of the cache read: [path, data]
    tbl,        \* the rows of a word or presentation table
    tblOut,     \* [by, text]: which adapter rendered tbl, and its output
    opt,        \* the image optimizer: [cfg, image, force_format]
    optOut,     \* what optimize_image or optimize_bytes gave back
    paraIn,     \* a word paragraph: [style, ilvl, runs]
    paraOut,    \* [done, text]: what _process_paragraph rendered for paraIn
    book,       \* a workbook: its sheets, each [name, rows, images]
    bookOut,    \* [done, parts, markdown]: what the spreadsheet adapter rendered
    cache,      \* [info, cleared]: the last get_cache_info and clear_cache results
    deck,       \* a presentation: [slides, extract_images, image_format]
    deckOut,    \* what the presentation adapter made of deck
    srv,        \* the server: [converter: _converter is set, cacheOk: the cache
                \*  directory can be made]
    reply,      \* what call_tool gave its caller
    mdIn,       \* a markdown text before the clean-up
    mdOut       \* [passes, text]: mdIn after so many passes of _clean_markdown

fmtVars == <<fmtRuns, fmtOut>>
tableVars == <<grid, tableOut>>
convVars == <<src, fs, last, prev, clock, env>>
procVars == <<procs, planned, seen>>
docTableVars == <<tbl, tblOut>>
optVars == <<opt, optOut>>
paraVars == <<paraIn, paraOut>>
bookVars == <<book, bookOut>>
pureVars == <<tbl, tblOut, opt, optOut, paraIn, paraOut, book, bookOut>>
deckVars == <<deck, deckOut>>
srvVars == <<srv, reply>>
mdVars == <<mdIn, mdOut>>
restVars == <<cache, deckVars, srvVars, mdVars>>
unitVars == <<pureVars, restVars>>
vars == <<fmtRuns, fmtOut, grid, tableOut, src, fs, last, prev, clock, env,
          procs, planned, seen, tbl, tblOut, opt, optOut, paraIn, paraOut,
          book, bookOut, cache, deck, deckOut, srv, reply, mdIn, mdOut>>

(***************************************************************************)
(* Bounds of the model.                                                    *)
(***************************************************************************)
MaxRuns == 2
MaxRows == 2
MaxCols == 2
MaxCalls == 2       \* convert_file calls in a row
MaxSrcLen == 1      \* bytes of the source file converted repeatedly
MaxBytes == 4       \* bytes of the source file converted once
MaxIoFail == 1      \* which open of an image file may fail
MaxProcs == 2       \* conversions running at the same time

(***************************************************************************)
(* Python's None.                                                          *)
(***************************************************************************)
None == "<None>"

(***************************************************************************)
(* String helpers: the str methods the converters use.                     *)
(***************************************************************************)
Min(a, b) == IF a <= b THEN a ELSE b
Max(a, b) == IF a >= b THEN a ELSE b

\* s[i-1] of Python: the i-th character, as a string of length 1.
CharAt(s, i) == SubSeq(s, i, i)

\* str.replace(old, new) for a one-character old.
RECURSIVE StrReplace(_, _, _)
StrReplace(s, old, new) ==
    IF s = "" THEN ""
    ELSE (IF Head(s) = old THEN new ELSE Head(s)) \o StrReplace(Tail(s), old, new)

\* sep.join(parts)
RECURSIVE StrJoin(_, _)
StrJoin(parts, sep) ==
    IF Len(parts) = 0 THEN ""
    ELSE IF Len(parts) = 1 THEN parts[1]
    ELSE parts[1] \o sep \o StrJoin(Tail(parts), sep)

\* "".join(parts)
StrConcat(parts) == StrJoin(parts, "")

\* The characters str.strip(), str.rstrip() and the regex class \s remove.
Whitespace == {" ", "\n", "\t", "\r"}

\* str.startswith(prefix)
StartsWith(s, prefix) ==
    Len(s) >= Len(prefix) /\ SubSeq(s, 1, Len(prefix)) = prefix

\* str.lstrip()
RECURSIVE StrLStrip(_)
StrLStrip(s) ==
    IF s = "" THEN ""
    ELSE IF Head(s) \in Whitespace THEN StrLStrip(Tail(s)) ELSE s

\* str.rstrip()
RECURSIVE StrRStrip(_)
StrRStrip(s) ==
    IF s = "" THEN ""
    ELSE IF CharAt(s, Len(s)) \in Whitespace
         THEN StrRStrip(SubSeq(s, 1, Len(s) - 1))
         ELSE s

\* str.strip()
StrStrip(s) == StrLStrip(StrRStrip(s))

\* str.find over a set of characters: the position of the first character
\* of s that is in cs, or Len(s) + 1 when there is none.
FirstOf(s, cs) ==
    LET at == {i \in 1..Len(s) : SubSeq(s, i, i) \in cs}
    IN IF at = {} THEN Len(s) + 1 ELSE CHOOSE i \in at : \A j \in at : i <= j

\* str.split(sep) for a one-character sep: the pieces between separators.
RECURSIVE StrSplit(_, _)
StrSplit(s, sep) ==
    IF FirstOf(s, {sep}) > Len(s) THEN <<s>>
    ELSE <<SubSeq(s, 1, FirstOf(s, {sep}) - 1)>>
         \o StrSplit(SubSeq(s, FirstOf(s, {sep}) + 1, Len(s)), sep)

\* str.replace(old, "") for a substring old: every occurrence, left to right.
RECURSIVE StrRemove(_, _)
StrRemove(s, old) ==
    IF s = "" THEN ""
    ELSE IF StartsWith(s, old) THEN StrRemove(SubSeq(s, Len(old) + 1, Len(s)), old)
    ELSE Head(s) \o StrRemove(Tail(s), old)

\* c * n
RECURSIVE StrRepeat(_, _)
StrRepeat(c, n) == IF n <= 0 THEN "" ELSE c \o StrRepeat(c, n - 1)

\* str.lower() on the ASCII letters.
LowerOf(c) ==
    LET upper == "ABCDEFGHIJKLMNOPQRSTUVWXYZ"
        lower == "abcdefghijklmnopqrstuvwxyz"
        at == {i \in 1..26 : CharAt(upper, i) = c}
    IN IF at = {} THEN c ELSE CharAt(lower, CHOOSE i \in at : TRUE)

RECURSIVE StrLower(_)
StrLower(s) == IF s = "" THEN "" ELSE LowerOf(Head(s)) \o StrLower(Tail(s))

\* The number of places where sub occurs in s.
CountOccurrences(s, sub) ==
    Cardinality({i \in 1..(Len(s) - Len(sub) + 1) : SubSeq(s, i, i + Len(sub) - 1) = sub})

\* The length of the longest prefix of s made of characters of the set cs.
RECURSIVE RunLength(_, _)
RunLength(s, cs) ==
    IF s = "" THEN 0
    ELSE IF Head(s) \in cs THEN 1 + RunLength(Tail(s), cs) ELSE 0

\* The position of the last newline among the first n characters of s (0: none).
RECURSIVE LastNewline(_, _)
LastNewline(s, n) ==
    IF n = 0 THEN 0
    ELSE IF CharAt(s, n) = "\n" THEN n ELSE LastNewline(s, n - 1)

\* s without its first n characters.
Drop(s, n) == SubSeq(s, n + 1, Len(s))

(***************************************************************************)
(* DocxConverter._clean_markdown, one definition per statement.            *)
(***************************************************************************)
\* re.sub(r"\n{3,}", "\n\n", markdown)
RECURSIVE CollapseBlankLines(_)
CollapseBlankLines(s) ==
    IF s = "" THEN ""
    ELSE IF Head(s) = "\n"
         THEN LET n == RunLength(s, {"\n"})
              IN (IF n >= 3 THEN "\n\n" ELSE StrRepeat("\n", n))
                 \o CollapseBlankLines(Drop(s, n))
         ELSE SubSeq(s, 1, FirstOf(s, {"\n"}) - 1)
              \o CollapseBlankLines(Drop(s, FirstOf(s, {"\n"}) - 1))

\* re.sub(r"(#{1,6})\s*\n+", r"\1 ", markdown): one to six '#', then a run
\* of whitespace that holds a newline, matched up to its last newline. A
\* run of more than six '#' matches from its seventh-last character only.
RECURSIVE FixHeaderSpacing(_)
FixHeaderSpacing(s) ==
    IF s = "" THEN ""
    ELSE IF Head(s) = "#"
         THEN LET h == RunLength(s, {"#"})
                  rest == Drop(s, h)
                  w == RunLength(rest, Whitespace)
                  nl == LastNewline(rest, w)
              IN IF h > 6 THEN "#" \o FixHeaderSpacing(Tail(s))
                 ELSE IF nl > 0
                      THEN StrRepeat("#", h) \o " " \o FixHeaderSpacing(Drop(rest, nl))
                      ELSE StrRepeat("#", h) \o FixHeaderSpacing(rest)
         ELSE SubSeq(s, 1, FirstOf(s, {"#"}) - 1)
              \o FixHeaderSpacing(Drop(s, FirstOf(s, {"#"}) - 1))

\* re.sub(r"\n\s*-\s*\n", "\n", markdown): a newline, whitespace, a dash
\* and a run of whitespace that holds a newline, matched up to its last
\* newline.
RECURSIVE CleanListFormatting(_)
CleanListFormatting(s) ==
    IF s = "" THEN ""
    ELSE IF Head(s) = "\n"
         THEN LET w1 == RunLength(Tail(s), Whitespace)
                  afterWs == Drop(Tail(s), w1)
                  dash == afterWs # "" /\ Head(afterWs) = "-"
                  afterDash == IF dash THEN Tail(afterWs) ELSE ""
                  w2 == RunLength(afterDash, Whitespace)
                  nl == LastNewline(afterDash, w2)
              IN IF dash /\ nl > 0
                 THEN "\n" \o CleanListFormatting(Drop(afterDash, nl))
                 ELSE "\n" \o CleanListFormatting(Tail(s))
         ELSE SubSeq(s, 1, FirstOf(s, {"\n"}) - 1)
              \o CleanListFormatting(Drop(s, FirstOf(s, {"\n"}) - 1))

\* "\n".join(line.rstrip() for line in markdown.split("\n"))
RStripLines(s) ==
    LET lines == StrSplit(s, "\n")
    IN StrJoin([i \in 1..Len(lines) |-> StrRStrip(lines[i])], "\n")

CleanMarkdown(markdown) ==
    StrStrip(RStripLines(CleanListFormatting(FixHeaderSpacing(
        CollapseBlankLines(markdown)))))

(***************************************************************************)
(* Inline run formatting.                                                  *)
(* A run is [text, bold, italic, underline, strike]; a flag is the         *)
(* truthiness of the attribute (None, inherited, is falsy).                *)
(***************************************************************************)
RunTexts == {"", "x", "y"}
Runs == [text : RunTexts, bold : BOOLEAN, italic : BOOLEAN,
         underline : BOOLEAN, strike : BOOLEAN]

\* The wrappers in the order strike, underline, italic, bold: strike
\* innermost and bold outermost.
DocxFormatRunStrikeFirst(run) ==
    LET t1 == IF run.strike THEN "~~" \o run.text \o "~~" ELSE run.text
        t2 == IF run.underline THEN "<u>" \o t1 \o "</u>" ELSE t1
        t3 == IF run.italic THEN "*" \o t2 \o "*" ELSE t2
        t4 == IF run.bold THEN "**" \o t3 \o "**" ELSE t3
    IN t4

\* DocxConverter._process_paragraph, "Apply formatting": the wrappers are
\* applied in the order bold, italic, underline, strike, each around the
\* result of the previous one.
DocxFormatRun(run) ==
    LET t1 == IF run.bold THEN "**" \o run.text \o "**" ELSE run.text
        t2 == IF run.italic THEN "*" \o t1 \o "*" ELSE t1
        t3 == IF run.underline THEN "<u>" \o t2 \o "</u>" ELSE t2
        t4 == IF run.strike THEN "~~" \o t3 \o "~~" ELSE t3
    IN t4

\* DocxConverter._process_paragraph, the loop over para.runs: a run without
\* text is skipped, every other run contributes its own wrapped text.
RECURSIVE DocxTextParts(_)
DocxTextParts(runs) ==
    IF Len(runs) = 0 THEN <<>>
    ELSE IF Head(runs).text = "" THEN DocxTextParts(Tail(runs))
    ELSE <<DocxFormatRun(Head(runs))>> \o DocxTextParts(Tail(runs))

\* PowerPointConverter._extract_text_from_shape, "Apply formatting": bold,
\* italic, underline; the presentation adapter reads no strike flag.
PptxFormatRun(run) ==
    LET t1 == IF run.bold THEN "**" \o run.text \o "**" ELSE run.text
        t2 == IF run.italic THEN "*" \o t1 \o "*" ELSE t1
        t3 == IF run.underline THEN "<u>" \o t2 \o "</u>" ELSE t2
    IN t3

\* PowerPointConverter._extract_text_from_shape, the loop over
\* paragraph.runs: para_text += text for every run with text.
RECURSIVE PptxParaText(_)
PptxParaText(runs) ==
    IF Len(runs) = 0 THEN ""
    ELSE IF Head(runs).text = "" THEN PptxParaText(Tail(runs))
    ELSE PptxFormatRun(Head(runs)) \o PptxParaText(Tail(runs))

RunSeqs == UNION {[1..n -> Runs] : n \in 0..MaxRuns}

FmtIdle == fmtRuns = <<>> /\ fmtOut = [by |-> "idle", text |-> ""]

InitFmt ==
    /\ fmtRuns \in RunSeqs
    /\ fmtOut = [by |-> "none", text |-> ""]

FormatRunsDocx ==
    /\ fmtOut.by = "none"
    /\ fmtOut' = [by |-> "docx", text |-> StrConcat(DocxTextParts(fmtRuns))]
    /\ UNCHANGED <<fmtRuns, tableVars, convVars, procVars, unitVars>>

FormatRunsPptx ==
    /\ fmtOut.by = "none"
    /\ fmtOut' = [by |-> "pptx", text |-> PptxParaText(fmtRuns)]
    /\ UNCHANGED <<fmtRuns, tableVars, convVars, procVars, unitVars>>

(***************************************************************************)
(* The spreadsheet table renderer.                                         *)
(* A cell value is None, a string or a number, as openpyxl hands it over   *)
(* with values_only=True.                                                  *)
(***************************************************************************)
NoneCell == [k |-> "none"]
StrCell(s) == [k |-> "str", v |-> s]
IntCell(n) == [k |-> "int", v |-> n]

Digit(d) == SubSeq("0123456789", d + 1, d + 1)

\* str(n) for a natural number n.
RECURSIVE IntStr(_)
IntStr(n) == IF n < 10 THEN Digit(n) ELSE IntStr(n \div 10) \o Digit(n % 10)

\* str(cell) of a cell that is not None.
PyStr(cell) == IF cell.k = "int" THEN IntStr(cell.v) ELSE cell.v

\* max(len(row) for row in data)
RECURSIVE MaxRowLen(_)
MaxRowLen(data) ==
    IF Len(data) = 0 THEN 0 ELSE Max(Len(Head(data)), MaxRowLen(Tail(data)))

\* The row as it is, short or not.
NormalizeRowUnpadded(row, max_cols) == row

\* list(row) + [None] * (max_cols - len(row))
NormalizeRow(row, max_cols) ==
    row \o [j \in 1..(max_cols - Len(row)) |-> NoneCell]

\* The cell's text: "" for None, pipes escaped, newlines replaced by spaces.
ExcelCellText(cell) ==
    LET cell_text == IF cell.k # "none" THEN PyStr(cell) ELSE ""
    IN StrReplace(StrReplace(cell_text, "|", "\\|"), "\n", " ")

\* "| " + " | ".join(cells) + " |"
TableLine(cells) == "| " \o StrJoin(cells, " | ") \o " |"

\* The rows of the table in order, the separator after row 0.
RECURSIVE ExcelMdRows(_, _)
ExcelMdRows(rows, i) ==
    IF Len(rows) = 0 THEN <<>>
    ELSE LET cells == [j \in 1..Len(Head(rows)) |-> ExcelCellText(Head(rows)[j])]
             separator == TableLine([j \in 1..Len(cells) |-> "---"])
         IN <<TableLine(cells)>>
            \o (IF i = 0 THEN <<separator>> ELSE <<>>)
            \o ExcelMdRows(Tail(rows), i + 1)

\* ExcelConverter._create_markdown_table
CreateMarkdownTable(data) ==
    IF Len(data) = 0 THEN ""
    ELSE LET max_cols == MaxRowLen(data)
             normalized_data ==
                 [r \in 1..Len(data) |-> NormalizeRow(data[r], max_cols)]
         IN StrJoin(ExcelMdRows(normalized_data, 0), "\n") \o "\n"

CellValues == {NoneCell, StrCell("a|\nb"), IntCell(30)}
\* A row of the data has at least one cell: convert_file keeps a row only
\* when one of its cells is not blank.
GridRows == UNION {[1..n -> CellValues] : n \in 1..MaxCols}
Grids == UNION {[1..n -> GridRows] : n \in 0..MaxRows}
ExampleGrid ==
    << <<StrCell("Name"), StrCell("Age")>>,
       <<StrCell("Al"), StrCell("30")>>,
       <<StrCell("Bo"), StrCell("")>> >>

TableIdle == grid = <<>> /\ tableOut = [done |-> TRUE, text |-> "<idle>"]

InitTable ==
    /\ grid \in Grids \cup {ExampleGrid}
    /\ tableOut = [done |-> FALSE, text |-> ""]

RenderTable ==
    /\ ~tableOut.done
    /\ tableOut' = [done |-> TRUE, text |-> CreateMarkdownTable(grid)]
    /\ UNCHANGED <<grid, fmtVars, convVars, procVars, unitVars>>

(***************************************************************************)
(* The table renderers of the word and presentation adapters:              *)
(* DocxConverter._process_table and PowerPointConverter._extract_table.    *)
(* A table is its rows, a row the texts of the cells the library reports   *)
(* for it (row.cells), which need not be as many in every row.             *)
(***************************************************************************)
\* cell.text.strip().replace("\n", " ").replace("|", "\\|")
DocCellText(text) ==
    StrReplace(StrReplace(StrStrip(text), "\n", " "), "|", "\\|")

\* The loop over table.rows, the same in both adapters: the row's cells as
\* they come, and after row 0 a separator of len(cells) columns.
RECURSIVE DocMdRows(_, _)
DocMdRows(rows, i) ==
    IF Len(rows) = 0 THEN <<>>
    ELSE LET cells == [j \in 1..Len(Head(rows)) |-> DocCellText(Head(rows)[j])]
             separator == TableLine([j \in 1..Len(cells) |-> "---"])
         IN <<TableLine(cells)>>
            \o (IF i = 0 THEN <<separator>> ELSE <<>>)
            \o DocMdRows(Tail(rows), i + 1)

\* DocxConverter._process_table
ProcessTable(table) ==
    IF Len(table) = 0 THEN "" ELSE StrJoin(DocMdRows(table, 0), "\n")

\* PowerPointConverter._extract_table
ExtractTable(table) ==
    IF Len(table) = 0 THEN "" ELSE StrJoin(DocMdRows(table, 0), "\n") \o "\n"

DocCellTexts == {"a", "", " b|c\nd "}
DocRows == UNION {[1..n -> DocCellTexts] : n \in 1..MaxCols}
DocTables == UNION {[1..n -> DocRows] : n \in 0..MaxRows}

DocTableIdle == tbl = <<>> /\ tblOut = [by |-> "idle", text |-> ""]

InitDocTable ==
    /\ tbl \in DocTables
    /\ tblOut = [by |-> "none", text |-> ""]

ProcessTableDocx ==
    /\ tblOut.by = "none"
    /\ tblOut' = [by |-> "docx", text |-> ProcessTable(tbl)]
    /\ UNCHANGED <<tbl, fmtVars, tableVars, convVars, procVars, optVars, paraVars, bookVars, restVars>>

ExtractTablePptx ==
    /\ tblOut.by = "none"
    /\ tblOut' = [by |-> "pptx", text |-> ExtractTable(tbl)]
    /\ UNCHANGED <<tbl, fmtVars, tableVars, convVars, procVars, optVars, paraVars, bookVars, restVars>>

(***************************************************************************)
(* Paths, the content hash and the output identifier.                      *)
(***************************************************************************)
\* The position of the last '.' among the first n characters (0: none).
RECURSIVE LastDot(_, _)
LastDot(name, n) ==
    IF n = 0 THEN 0
    ELSE IF CharAt(name, n) = "." THEN n ELSE LastDot(name, n - 1)

\* pathlib's Path.suffix: the final component's last suffix; a leading or a
\* trailing dot starts no suffix.
PathSuffix(name) ==
    LET i == LastDot(name, Len(name))
    IN IF 1 < i /\ i < Len(name) THEN SubSeq(name, i, Len(name)) ELSE ""

\* pathlib's Path.stem: the name without its suffix.
PathStem(name) == SubSeq(name, 1, Len(name) - Len(PathSuffix(name)))

\* parent / child; pathlib drops a "." component.
PathJoin(parent, child) == IF child = "." THEN parent ELSE parent \o "/" \o child

\* path.parent and path.name
LastSlash(path) == CHOOSE i \in 0..Len(path) :
    /\ i > 0 => CharAt(path, i) = "/"
    /\ \A j \in (i + 1)..Len(path) : CharAt(path, j) # "/"
PathParent(path) == SubSeq(path, 1, LastSlash(path) - 1)
PathName(path) == SubSeq(path, LastSlash(path) + 1, Len(path))

(***************************************************************************)
(* The cache directory: the directories that exist and the files with      *)
(* their content.                                                          *)
(***************************************************************************)
CacheDir == "cache"
OutputDir == PathJoin(CacheDir, "output")

\* DocxConverter.__init__ and OfficeConverter.__init__: cache_dir,
\* cache_dir/images and cache_dir/output exist after construction.
InitialFs ==
    [dirs |-> {CacheDir, PathJoin(CacheDir, "images"), OutputDir},
     files |-> <<>>]

\* path.mkdir(exist_ok=True)
Mkdir(f, path) == [f EXCEPT !.dirs = @ \cup {path}]

\* open(path, "w") / open(path, "wb"): the file exists and is empty.
OpenTruncate(f, path) ==
    [f EXCEPT !.files = [q \in DOMAIN f.files \cup {path} |->
                            IF q = path THEN "" ELSE f.files[q]]]

\* f.write(data) on the file just opened, and the close that ends the with.
WriteData(f, path, data) ==
    [f EXCEPT !.files = [q \in DOMAIN f.files \cup {path} |->
                            IF q = path THEN f.files[path] \o data ELSE f.files[q]]]

\* with open(path, "w") as f: f.write(data)
WriteFile(f, path, data) == WriteData(OpenTruncate(f, path), path, data)

\* The writes of a conversion, in the order the code performs them.
RECURSIVE ApplyWrites(_, _)
ApplyWrites(f, writes) ==
    IF Len(writes) = 0 THEN f
    ELSE ApplyWrites(WriteFile(f, Head(writes).path, Head(writes).data), Tail(writes))

(***************************************************************************)
(* Source files. The byte stream of a container is a string of element     *)
(* codes, one byte each, which the container readers (python-docx,         *)
(* mammoth, openpyxl, python-pptx) decode into the object model the        *)
(* adapters walk:                                                          *)
(*   "/"  the boundary between two paragraphs, sheets or slides            *)
(*   "t"  text: a run, a row of cells, a text shape                        *)
(*   "i"  an embedded image whose bytes are a PNG raster                   *)
(*   "x"  an embedded image whose bytes are no decodable raster            *)
(*   "s"  word: a drawing whose relationship id resolves to no part;       *)
(*        spreadsheet: a row of blank cells;                               *)
(*        presentation: a group shape holding a text shape and a picture   *)
(* An empty byte stream is no container: the reader raises.                *)
(***************************************************************************)
ByteAlphabet == "/tixs"
Bytes == {CharAt(ByteAlphabet, i) : i \in 1..Len(ByteAlphabet)}

\* The value of a byte.
ByteValue(b) == CHOOSE i \in 1..Len(ByteAlphabet) : CharAt(ByteAlphabet, i) = b

\* The byte streams of at most n bytes.
RECURSIVE ByteStreams(_)
ByteStreams(n) ==
    IF n = 0 THEN {""}
    ELSE LET shorter == ByteStreams(n - 1)
         IN shorter \cup {s \o b : s \in shorter, b \in Bytes}

\* The groups of codes between boundaries.
RECURSIVE SplitGroups(_, _)
SplitGroups(data, group) ==
    IF data = "" THEN <<group>>
    ELSE IF Head(data) = "/" THEN <<group>> \o SplitGroups(Tail(data), "")
    ELSE SplitGroups(Tail(data), group \o Head(data))

HexDigit(d) == SubSeq("0123456789abcdef", d + 1, d + 1)

\* n hexadecimal digits of h, the low digit first.
RECURSIVE HexDigits(_, _)
HexDigits(h, n) ==
    IF n = 0 THEN "" ELSE HexDigit(h % 16) \o HexDigits(h \div 16, n - 1)

\* hashlib.md5: hasher.update(chunk) folds the bytes of a chunk into the
\* hasher's state. MD5 itself is a library function: a 20-bit mixing
\* function of the whole byte stream stands for it.
RECURSIVE Md5Update(_, _)
Md5Update(h, chunk) ==
    IF chunk = "" THEN h
    ELSE Md5Update((h * 33 + ByteValue(Head(chunk))) % 1048573, Tail(chunk))

\* hasher.hexdigest(): 32 hexadecimal digits.
Md5HexDigest(h) == HexDigits(h, 32)

\* f.read(8192) per iteration.
ChunkSize == 8192

\* for chunk in iter(lambda: f.read(8192), b""): hasher.update(chunk)
RECURSIVE HashChunks(_, _)
HashChunks(h, rest) ==
    IF rest = "" THEN h
    ELSE LET n == Min(ChunkSize, Len(rest))
         IN HashChunks(Md5Update(h, SubSeq(rest, 1, n)),
                       SubSeq(rest, n + 1, Len(rest)))

\* OfficeConverter._get_file_hash and DocxConverter._get_file_hash
GetFileHash(data) == Md5HexDigest(HashChunks(7, data))

\* f"{file_path.stem}_{file_hash[:8]}"
HashedOutputName(file) ==
    PathStem(file.name) \o "_" \o SubSeq(GetFileHash(file.data), 1, 8)

\* if not output_name: ... (None and "" are both falsy)
OutputNameFor(file, output_name) ==
    IF output_name = None \/ output_name = "" THEN HashedOutputName(file)
    ELSE output_name

\* The embedded image parts: their bytes and declared content type.
GoodBlob == "<png-bytes>"
BadBlob == "<not-a-raster>"
ImagePartOf(code) ==
    IF code = "i"
    THEN [found |-> TRUE, blob |-> GoodBlob, content_type |-> "image/png"]
    ELSE IF code = "x"
    THEN [found |-> TRUE, blob |-> BadBlob, content_type |-> "image/jpeg"]
    ELSE [found |-> FALSE, blob |-> "", content_type |-> ""]

\* base64.b64encode(data).decode("utf-8")
Base64(data) == "b64(" \o data \o ")"

\* PIL's Image.open(BytesIO(img_bytes)): the decoded image, or the error it
\* raises. The error's text is PIL's "cannot identify image file %r" with
\* the repr of the stream, which names the stream object's address.
PilOpen(img_bytes, heap) ==
    IF img_bytes = GoodBlob
    THEN [ok |-> TRUE, image |-> [mode |-> "RGB", pixels |-> img_bytes], error |-> ""]
    ELSE [ok |-> FALSE, image |-> [mode |-> "", pixels |-> ""],
          error |-> "cannot identify image file <_io.BytesIO object at 0x7f"
                    \o HexDigits(heap, 2) \o ">"]

\* ImageOptimizer.optimize_image as OfficeConverter configures it
\* (prefer_webp=True): _choose_format answers "webp" on each of its
\* branches and _save_as_webp returns the encoded bytes with ".webp".
OptimizeImage(image) ==
    [data |-> "webp(" \o image.pixels \o ")", ext |-> ".webp"]

\* The text of the OSError a failing open(img_path, "wb") raises.
WriteErrorText(path) == "[Errno 28] No space left on device: '" \o path \o "'"

\* f"{n:03d}"
Fmt03d(n) ==
    IF n < 10 THEN "00" \o IntStr(n)
    ELSE IF n < 100 THEN "0" \o IntStr(n)
    ELSE IntStr(n)

(***************************************************************************)
(* What an adapter hands back: the result dict, or the exception that      *)
(* left it, and the image files it wrote on the way, in order.             *)
(***************************************************************************)
NoTime == 0 - 1

AdapterResult(markdown, images, converted_at, writes) ==
    [raised |-> FALSE, exc |-> "", error |-> "", markdown |-> markdown,
     images |-> images, metadata |-> [converted_at |-> converted_at],
     writes |-> writes, saved |-> FALSE]

AdapterRaised(exc, error, writes) ==
    [raised |-> TRUE, exc |-> exc, error |-> error, markdown |-> "",
     images |-> <<>>, metadata |-> [converted_at |-> NoTime],
     writes |-> writes, saved |-> FALSE]

(***************************************************************************)
(* The word adapter, .docx: DocxConverter._convert_docx.                   *)
(***************************************************************************)
\* python-docx's Document(file_path): the paragraphs of the body, each with
\* its style name, its numbering level (NoTime: none) and its runs; a run
\* holds its text, its flags and the embed ids of its drawings.
DocxRunOf(code) ==
    [text |-> IF code = "t" THEN "t" ELSE "",
     bold |-> FALSE, italic |-> FALSE, underline |-> FALSE, strike |-> FALSE,
     blips |-> IF code = "t" THEN <<>> ELSE <<[embed |-> "rId-" \o code]>>]

DocxDocument(data) ==
    LET groups == SplitGroups(data, "")
    IN [i \in 1..Len(groups) |->
           [style |-> "Normal", ilvl |-> NoTime,
            runs |-> [j \in 1..Len(groups[i]) |-> DocxRunOf(CharAt(groups[i], j))]]]

\* doc.part.related_parts.get(embed_id)
RelatedPart(embed_id) == ImagePartOf(CharAt(embed_id, Len(embed_id)))

\* ext_map.get(content_type, ".png") of _process_paragraph
DocxExt(content_type) ==
    CASE content_type = "image/png" -> ".png"
      [] content_type = "image/jpeg" -> ".jpg"
      [] content_type = "image/gif" -> ".gif"
      [] content_type = "image/bmp" -> ".bmp"
      [] OTHER -> ".png"

\* int(text) of a heading style's suffix: the digits' value, or a ValueError.
IsDigit(c) == c \in {Digit(d) : d \in 0..9}
DigitValue(c) == CHOOSE d \in 0..9 : Digit(d) = c

RECURSIVE DigitsValue(_, _)
DigitsValue(s, acc) ==
    IF s = "" THEN acc ELSE DigitsValue(Tail(s), acc * 10 + DigitValue(Head(s)))

ParseInt(text) ==
    LET neg == text # "" /\ Head(text) = "-"
        body == IF text # "" /\ Head(text) \in {"-", "+"} THEN Tail(text) ELSE text
        ok == body # "" /\ Len(body) <= 3
              /\ \A i \in 1..Len(body) : IsDigit(CharAt(body, i))
    IN [ok |-> ok,
        value |-> IF ~ok THEN 0
                  ELSE IF neg THEN 0 - DigitsValue(body, 0) ELSE DigitsValue(body, 0)]

\* _process_paragraph, "Check for heading style"
HeadingLevel(style_name) ==
    IF StartsWith(style_name, "Heading")
    THEN LET parsed == ParseInt(StrStrip(StrRemove(style_name, "Heading")))
         IN IF parsed.ok THEN parsed.value ELSE 0
    ELSE 0

\* The embed ids of a paragraph's drawings, run by run.
RECURSIVE ParagraphBlips(_)
ParagraphBlips(runs) ==
    IF Len(runs) = 0 THEN <<>> ELSE Head(runs).blips \o ParagraphBlips(Tail(runs))

\* _process_paragraph, inside the try of one drawing whose part was found.
\* acc holds the local image_counter, the images list, the text_parts, the
\* files written and the number of files opened for writing so far; the
\* io-th open of the conversion fails (0: none does). The part's bytes are
\* written as they are. A failure inside the try leaves the counter
\* incremented and nothing else ("except Exception: pass").
DocxSaveImage(acc, image_part, image_format, images_dir, io) ==
    LET counter == acc.counter + 1
        img_name == "image_" \o Fmt03d(counter) \o DocxExt(image_part.content_type)
        img_path == PathJoin(images_dir, img_name)
        toFile == image_format \in {"file", "both"}
        reference ==
            IF image_format = "base64"
            THEN "\n![image](data:" \o image_part.content_type \o ";base64,"
                 \o Base64(image_part.blob) \o ")\n"
            ELSE "\n![image](images/" \o img_name \o ")\n"
    IN IF toFile /\ acc.att + 1 = io
       THEN [acc EXCEPT !.counter = counter, !.att = @ + 1]
       ELSE [acc EXCEPT
                !.counter = counter,
                !.att = IF toFile THEN @ + 1 ELSE @,
                !.images = IF toFile THEN Append(@, img_path) ELSE @,
                !.writes = IF toFile
                           THEN Append(@, [path |-> img_path, data |-> image_part.blob])
                           ELSE @,
                !.text_parts = Append(@, reference)]

\* if embed_id: ... if image_part: ...
DocxBlip(acc, embed_id, image_part, image_format, images_dir, io) ==
    IF embed_id = "" \/ ~image_part.found THEN acc
    ELSE DocxSaveImage(acc, image_part, image_format, images_dir, io)

\* _process_paragraph, "Check for images in paragraph": one drawing after
\* the other.
RECURSIVE DocxBlips(_, _, _, _, _)
DocxBlips(blips, acc, image_format, images_dir, io) ==
    IF Len(blips) = 0 THEN acc
    ELSE DocxBlips(Tail(blips),
                   DocxBlip(acc, Head(blips).embed, RelatedPart(Head(blips).embed),
                            image_format, images_dir, io),
                   image_format, images_dir, io)

\* if extract_images: the drawings of the paragraph.
ParagraphImages(para, start, extract_images, image_format, images_dir, io) ==
    IF extract_images
    THEN DocxBlips(ParagraphBlips(para.runs), start, image_format, images_dir, io)
    ELSE start

\* _process_paragraph, "Apply heading formatting"
WithHeading(heading_level, full_text) ==
    IF heading_level > 0
    THEN StrRepeat("#", heading_level) \o " " \o full_text
    ELSE full_text

\* _process_paragraph, "Check for list items"
WithListItem(ilvl, text) ==
    IF ilvl # NoTime THEN StrRepeat("  ", ilvl) \o "- " \o text ELSE text

\* _process_paragraph, from full_text on.
ParagraphText(para, full_text) ==
    IF full_text = "" THEN ""
    ELSE WithListItem(para.ilvl, WithHeading(HeadingLevel(para.style), full_text))

ParagraphResult(para, acc) ==
    [md_text |-> ParagraphText(para, StrStrip(StrConcat(acc.text_parts))),
     images |-> acc.images, writes |-> acc.writes, att |-> acc.att]

\* DocxConverter._process_paragraph
ProcessParagraph(para, extract_images, image_format, images_dir, image_counter, att, io) ==
    ParagraphResult(para,
                    ParagraphImages(para,
                                    [counter |-> image_counter, att |-> att,
                                     images |-> <<>>, writes |-> <<>>,
                                     text_parts |-> DocxTextParts(para.runs)],
                                    extract_images, image_format, images_dir, io))

\* _convert_docx, the body of the loop over paragraphs: image_counter grows
\* by the number of images the paragraph returned.
AddParagraph(acc, p) ==
    [markdown_parts |-> IF p.md_text # "" THEN Append(acc.markdown_parts, p.md_text)
                        ELSE acc.markdown_parts,
     images |-> acc.images \o p.images,
     image_counter |-> acc.image_counter + Len(p.images),
     writes |-> acc.writes \o p.writes,
     att |-> p.att]

\* _convert_docx, "Process document body"
RECURSIVE DocxBody(_, _, _, _, _, _)
DocxBody(paras, acc, extract_images, image_format, images_dir, io) ==
    IF Len(paras) = 0 THEN acc
    ELSE DocxBody(Tail(paras),
                  AddParagraph(acc,
                               ProcessParagraph(Head(paras), extract_images,
                                                image_format, images_dir,
                                                acc.image_counter, acc.att, io)),
                  extract_images, image_format, images_dir, io)

\* _convert_docx, the join, the clean-up and the result dict.
DocxResult(body) ==
    AdapterResult(CleanMarkdown(StrJoin(body.markdown_parts, "\n\n")),
                  body.images, NoTime, body.writes)

\* DocxConverter._convert_docx
ConvertDocx(file, extract_images, image_format, images_dir, io) ==
    IF file.data = ""
    THEN AdapterRaised("PackageNotFoundError", "Package not found", <<>>)
    ELSE DocxResult(DocxBody(DocxDocument(file.data),
                             [markdown_parts |-> <<>>, images |-> <<>>,
                              image_counter |-> 0, writes |-> <<>>, att |-> 0],
                             extract_images, image_format, images_dir, io))

(***************************************************************************)
(* The word adapter, .doc: DocxConverter._convert_doc_with_mammoth.        *)
(***************************************************************************)
\* ext_map.get(content_type, ".png") of handle_image
MammothExt(content_type) ==
    CASE content_type = "image/png" -> ".png"
      [] content_type = "image/jpeg" -> ".jpg"
      [] content_type = "image/gif" -> ".gif"
      [] content_type = "image/bmp" -> ".bmp"
      [] content_type = "image/webp" -> ".webp"
      [] OTHER -> ".png"

\* handle_image: the closure mammoth calls for every image. It writes the
\* image's bytes as they are and returns the element for the file, whatever
\* the image_format. A failing open(img_path, "wb") leaves the handler and
\* the conversion.
HandleImage(acc, part, image_format, images_dir, io) ==
    LET counter == acc.counter + 1
        img_name == "image_" \o Fmt03d(counter) \o MammothExt(part.content_type)
        img_path == PathJoin(images_dir, img_name)
        toFile == image_format \in {"file", "both"}
    IN IF toFile /\ acc.att + 1 = io
       THEN [acc EXCEPT !.raised = TRUE, !.error = WriteErrorText(img_path)]
       ELSE [acc EXCEPT
                !.counter = counter,
                !.att = IF toFile THEN @ + 1 ELSE @,
                !.images = IF toFile THEN Append(@, img_path) ELSE @,
                !.writes = IF toFile
                           THEN Append(@, [path |-> img_path, data |-> part.blob])
                           ELSE @,
                !.inline = Append(@, "![image](images/" \o img_name \o ")")]

\* One element of a paragraph as mammoth and markdownify render it; without
\* extract_images mammoth inlines the image as a data URI itself.
MammothElement(acc, code, part, extract_images, image_format, images_dir, io) ==
    IF code = "t" THEN [acc EXCEPT !.inline = Append(@, "t")]
    ELSE IF ~part.found THEN acc
    ELSE IF ~extract_images
    THEN [acc EXCEPT !.inline =
              Append(@, "![](data:" \o part.content_type \o ";base64,"
                        \o Base64(part.blob) \o ")")]
    ELSE HandleImage(acc, part, image_format, images_dir, io)

RECURSIVE MammothBody(_, _, _, _, _, _)
MammothBody(codes, acc, extract_images, image_format, images_dir, io) ==
    IF codes = "" \/ acc.raised THEN acc
    ELSE MammothBody(Tail(codes),
                     MammothElement(acc, Head(codes), ImagePartOf(Head(codes)),
                                    extract_images, image_format, images_dir, io),
                     extract_images, image_format, images_dir, io)

\* The end of a paragraph as markdownify renders it: its inline content and
\* a blank line.
CloseParagraph(p) ==
    [p EXCEPT !.markdown = @ \o (IF Len(p.inline) = 0 THEN ""
                                 ELSE StrConcat(p.inline) \o "\n\n")]

\* The paragraphs of the HTML body, one after the other.
RECURSIVE MammothParagraphs(_, _, _, _, _, _)
MammothParagraphs(groups, acc, extract_images, image_format, images_dir, io) ==
    IF Len(groups) = 0 \/ acc.raised THEN acc
    ELSE MammothParagraphs(Tail(groups),
                           CloseParagraph(MammothBody(Head(groups),
                                                      [acc EXCEPT !.inline = <<>>],
                                                      extract_images, image_format,
                                                      images_dir, io)),
                           extract_images, image_format, images_dir, io)

\* _convert_doc_with_mammoth, from _html_to_markdown on.
MammothResult(body, now) ==
    IF body.raised THEN AdapterRaised("OSError", body.error, body.writes)
    ELSE AdapterResult(CleanMarkdown(body.markdown), body.images, now, body.writes)

\* DocxConverter._convert_doc_with_mammoth and _html_to_markdown
ConvertDocWithMammoth(file, extract_images, image_format, images_dir, now, io) ==
    IF file.data = ""
    THEN AdapterRaised("BadZipFile", "File is not a zip file", <<>>)
    ELSE MammothResult(MammothParagraphs(SplitGroups(file.data, ""),
                                         [raised |-> FALSE, error |-> "", counter |-> 0,
                                          att |-> 0, images |-> <<>>, writes |-> <<>>,
                                          inline |-> <<>>, markdown |-> ""],
                                         extract_images, image_format, images_dir, io),
                       now)

(***************************************************************************)
(* The spreadsheet adapter: ExcelConverter.convert_file.                   *)
(***************************************************************************)
\* openpyxl's load_workbook(file_path, data_only=True): the sheets in
\* workbook order, each with its rows of cell values and its images.
SheetRowOf(code) ==
    IF code = "t" THEN <<StrCell("a"), IntCell(0)>> ELSE <<NoneCell, StrCell(" ")>>

RECURSIVE SheetRows(_)
SheetRows(codes) ==
    IF codes = "" THEN <<>>
    ELSE (IF Head(codes) \in {"t", "s"} THEN <<SheetRowOf(Head(codes))>> ELSE <<>>)
         \o SheetRows(Tail(codes))

RECURSIVE SheetImages(_)
SheetImages(codes) ==
    IF codes = "" THEN <<>>
    ELSE (IF Head(codes) \in {"i", "x"} THEN <<ImagePartOf(Head(codes)).blob>> ELSE <<>>)
         \o SheetImages(Tail(codes))

Workbook(data) ==
    LET groups == SplitGroups(data, "")
    IN [i \in 1..Len(groups) |->
           [name |-> "Sheet" \o IntStr(i), rows |-> SheetRows(groups[i]),
            images |-> SheetImages(groups[i])]]

\* A row kept as soon as one of its cells is not None.
RowHasDataNotNone(row) == \E j \in 1..Len(row) : row[j].k # "none"

\* any(cell is not None and str(cell).strip() for cell in row)
RowHasData(row) ==
    \E j \in 1..Len(row) : row[j].k # "none" /\ StrStrip(PyStr(row[j])) # ""

\* The rows of a sheet that hold data, in order.
RECURSIVE SheetData(_)
SheetData(rows) ==
    IF Len(rows) = 0 THEN <<>>
    ELSE (IF RowHasData(Head(rows)) THEN <<Head(rows)>> ELSE <<>>)
         \o SheetData(Tail(rows))

\* convert_file, "Extract images from sheet", from optimize_image on: the
\* file name, the save and the references. A file that cannot be opened for
\* writing ends the conversion with the OSError.
ExcelSaveImage(acc, img_name, optimized, image_format, images_dir, io) ==
    LET img_filename == img_name \o optimized.ext
        img_path == PathJoin(images_dir, img_filename)
        toFile == image_format \in {"file", "both"}
        content_type == "image/" \o Tail(optimized.ext)
        fileRef == "\n![" \o img_name \o "](images/" \o img_filename \o ")\n"
        dataRef == "\n![" \o img_name \o "](data:" \o content_type \o ";base64,"
                   \o Base64(optimized.data) \o ")\n"
    IN IF toFile /\ acc.att + 1 = io
       THEN [acc EXCEPT !.raised = TRUE, !.exc = "OSError",
                        !.error = WriteErrorText(img_path)]
       ELSE [acc EXCEPT
                !.att = IF toFile THEN @ + 1 ELSE @,
                !.all_images = IF toFile THEN Append(@, img_path) ELSE @,
                !.writes = IF toFile
                           THEN Append(@, [path |-> img_path, data |-> optimized.data])
                           ELSE @,
                !.markdown_parts =
                    @ \o (IF toFile THEN <<fileRef>> ELSE <<>>)
                      \o (IF image_format = "base64" THEN <<dataRef>> ELSE <<>>)]

\* convert_file, "Extract images from sheet", after Image.open: no try
\* surrounds the loop, so an image PIL cannot open ends the conversion with
\* the exception.
ExcelOpenedImage(acc, img_name, pil_img, image_format, images_dir, io) ==
    IF ~pil_img.ok
    THEN [acc EXCEPT !.raised = TRUE, !.exc = "UnidentifiedImageError",
                     !.error = pil_img.error]
    ELSE ExcelSaveImage(acc, img_name, OptimizeImage(pil_img.image), image_format,
                        images_dir, io)

\* convert_file, "Extract images from sheet": image_counter += 1 comes first.
RECURSIVE ExcelImages(_, _, _, _, _, _)
ExcelImages(imgs, acc, image_format, images_dir, heap, io) ==
    IF Len(imgs) = 0 \/ acc.raised THEN acc
    ELSE ExcelImages(Tail(imgs),
                     ExcelOpenedImage([acc EXCEPT !.image_counter = @ + 1],
                                      "excel_image_" \o Fmt03d(acc.image_counter + 1),
                                      PilOpen(Head(imgs), heap),
                                      image_format, images_dir, io),
                     image_format, images_dir, heap, io)

\* convert_file, the sheet's header and its table or "*Empty sheet*".
SheetHead(acc, sheet_name, data) ==
    [acc EXCEPT !.markdown_parts =
                    @ \o <<"# Sheet: " \o sheet_name \o "\n",
                           IF Len(data) > 0 THEN CreateMarkdownTable(data)
                           ELSE "*Empty sheet*\n">>]

\* if extract_images and hasattr(sheet, '_images')
SheetImagesOf(ws, headed, extract_images, image_format, images_dir, heap, io) ==
    IF extract_images
    THEN ExcelImages(ws.images, headed, image_format, images_dir, heap, io)
    ELSE headed

\* markdown_parts.append("\n---\n"), reached unless the sheet raised.
CloseSheet(imaged) ==
    IF imaged.raised THEN imaged
    ELSE [imaged EXCEPT !.markdown_parts = Append(@, "\n---\n")]

\* convert_file, "Process each sheet"
RECURSIVE ExcelSheets(_, _, _, _, _, _, _)
ExcelSheets(sheets, acc, extract_images, image_format, images_dir, heap, io) ==
    IF Len(sheets) = 0 \/ acc.raised THEN acc
    ELSE ExcelSheets(Tail(sheets),
                     CloseSheet(SheetImagesOf(Head(sheets),
                                              SheetHead(acc, Head(sheets).name,
                                                        SheetData(Head(sheets).rows)),
                                              extract_images, image_format,
                                              images_dir, heap, io)),
                     extract_images, image_format, images_dir, heap, io)

\* convert_file, "Combine all parts" and the result dict.
ExcelResult(done, now) ==
    IF done.raised THEN AdapterRaised(done.exc, done.error, done.writes)
    ELSE AdapterResult(StrJoin(done.markdown_parts, "\n"), done.all_images,
                       now, done.writes)

\* ExcelConverter.convert_file, after its own checks of the path
ConvertExcel(file, extract_images, image_format, images_dir, now, heap, io) ==
    IF StrLower(PathSuffix(file.name)) = ".xls"
    THEN AdapterRaised("InvalidFileException",
                       "openpyxl does not support the old .xls file format", <<>>)
    ELSE IF file.data = ""
    THEN AdapterRaised("BadZipFile", "File is not a zip file", <<>>)
    ELSE ExcelResult(ExcelSheets(Workbook(file.data),
                                 [raised |-> FALSE, exc |-> "", error |-> "",
                                  image_counter |-> 0, att |-> 0, all_images |-> <<>>,
                                  writes |-> <<>>, markdown_parts |-> <<>>],
                                 extract_images, image_format, images_dir, heap, io),
                     now)

(***************************************************************************)
(* The presentation adapter: PowerPointConverter.convert_file.             *)
(***************************************************************************)
\* python-pptx's Presentation(file_path): the slides in order, each with
\* its layout name and its shapes; a shape has a type, a text frame (its
\* paragraphs of runs) or not, the picture's bytes, and a group's shapes.
TextShape(text) ==
    [shape_type |-> "TEXT_BOX", has_text_frame |-> TRUE, has_table |-> FALSE,
     paragraphs |-> <<[level |-> 0,
                       runs |-> <<[text |-> text, bold |-> FALSE, italic |-> FALSE,
                                   underline |-> FALSE, strike |-> FALSE]>>]>>,
     blob |-> "", shapes |-> <<>>, table |-> <<>>]

PictureShape(blob) ==
    [shape_type |-> "PICTURE", has_text_frame |-> FALSE, has_table |-> FALSE,
     paragraphs |-> <<>>, blob |-> blob, shapes |-> <<>>, table |-> <<>>]

GroupShape(shapes) ==
    [shape_type |-> "GROUP", has_text_frame |-> FALSE, has_table |-> FALSE,
     paragraphs |-> <<>>, blob |-> "", shapes |-> shapes, table |-> <<>>]

\* A graphic frame holding a table: its rows of cell texts.
TableShape(rows) ==
    [shape_type |-> "TABLE", has_text_frame |-> FALSE, has_table |-> TRUE,
     paragraphs |-> <<>>, blob |-> "", shapes |-> <<>>, table |-> rows]

\* A shape python-pptx builds as a BaseShape (an ink content part, say):
\* reading its shape_type raises NotImplementedError.
NotImplemented == "<NotImplementedError>"
UnrecognizedShape ==
    [shape_type |-> NotImplemented, has_text_frame |-> FALSE, has_table |-> FALSE,
     paragraphs |-> <<>>, blob |-> "", shapes |-> <<>>, table |-> <<>>]

SlideShapeOf(code) ==
    CASE code = "t" -> TextShape("t")
      [] code \in {"i", "x"} -> PictureShape(ImagePartOf(code).blob)
      [] OTHER -> GroupShape(<<TextShape("g"), PictureShape(GoodBlob)>>)

Presentation(data) ==
    LET groups == SplitGroups(data, "")
    IN [i \in 1..Len(groups) |->
           [layout |-> "Blank",
            shapes |-> [j \in 1..Len(groups[i]) |-> SlideShapeOf(CharAt(groups[i], j))]]]

\* _extract_text_from_shape: the paragraphs with text, indented by level.
RECURSIVE PptxTextParts(_)
PptxTextParts(paragraphs) ==
    IF Len(paragraphs) = 0 THEN <<>>
    ELSE
      LET paragraph == Head(paragraphs)
          para_text == PptxParaText(paragraph.runs)
          level == paragraph.level
          line == IF level > 0 THEN StrRepeat("  ", level) \o "- " \o para_text
                  ELSE para_text
      IN (IF StrStrip(para_text) # "" THEN <<line>> ELSE <<>>)
         \o PptxTextParts(Tail(paragraphs))

\* PowerPointConverter._extract_text_from_shape
ExtractTextFromShape(shape) ==
    IF ~shape.has_text_frame THEN ""
    ELSE StrJoin(PptxTextParts(shape.paragraphs), "\n")

\* PowerPointConverter._extract_from_group: the text of the text frames of
\* the group and of its nested groups; no other shape of a group is read.
RECURSIVE GroupTextParts(_)
GroupTextParts(shapes) ==
    IF Len(shapes) = 0 THEN <<>>
    ELSE
      LET shape == Head(shapes)
          text == IF shape.has_text_frame THEN ExtractTextFromShape(shape)
                  ELSE IF shape.shape_type = "GROUP"
                  THEN StrJoin(GroupTextParts(shape.shapes), "\n")
                  ELSE ""
      IN (IF StrStrip(text) # "" THEN <<text>> ELSE <<>>)
         \o GroupTextParts(Tail(shapes))

ExtractFromGroup(group_shape) == StrJoin(GroupTextParts(group_shape.shapes), "\n")

\* _extract_from_group reads shape.shape_type of every shape without a text
\* frame: the read raises for an unrecognized shape, at any depth.
RECURSIVE GroupRaises(_)
GroupRaises(shapes) ==
    IF Len(shapes) = 0 THEN FALSE
    ELSE \/ /\ ~Head(shapes).has_text_frame
            /\ \/ Head(shapes).shape_type = NotImplemented
               \/ Head(shapes).shape_type = "GROUP" /\ GroupRaises(Head(shapes).shapes)
         \/ GroupRaises(Tail(shapes))

\* convert_file reads shape.shape_type outside every try, at "Handle
\* images" or, without extract_images, at "Handle grouped shapes".
ShapeRaises(shape) ==
    \/ shape.shape_type = NotImplemented
    \/ shape.shape_type = "GROUP" /\ GroupRaises(shape.shapes)

\* f"\n*[Image extraction failed: {e}]*"
ImageFailureNote(error) == "\n*[Image extraction failed: " \o error \o "]*"

\* convert_file, "Handle images", from optimize_image on: the file name,
\* the save and the reference. A failing open(img_path, "wb") is caught by
\* the picture's try and becomes the failure note.
PptxSaveImage(acc, img_name, optimized, image_format, images_dir, io) ==
    LET img_filename == img_name \o optimized.ext
        img_path == PathJoin(images_dir, img_filename)
        toFile == image_format \in {"file", "both"}
        content_type == "image/" \o Tail(optimized.ext)
        fileRef == "\n![" \o img_name \o "](images/" \o img_filename \o ")"
        dataRef == "\n![" \o img_name \o "](data:" \o content_type \o ";base64,"
                   \o Base64(optimized.data) \o ")"
    IN IF toFile /\ acc.att + 1 = io
       THEN [acc EXCEPT !.att = @ + 1,
                        !.slide_text_parts =
                            Append(@, ImageFailureNote(WriteErrorText(img_path)))]
       ELSE [acc EXCEPT
                !.att = IF toFile THEN @ + 1 ELSE @,
                !.all_images = IF toFile THEN Append(@, img_path) ELSE @,
                !.writes = IF toFile
                           THEN Append(@, [path |-> img_path, data |-> optimized.data])
                           ELSE @,
                !.slide_text_parts =
                    @ \o (IF toFile THEN <<fileRef>> ELSE <<>>)
                      \o (IF image_format = "base64" THEN <<dataRef>> ELSE <<>>)]

\* convert_file, "Handle images", after Image.open: an image PIL cannot
\* open raises inside the try and becomes the failure note.
PptxOpenedImage(acc, img_name, pil_img, image_format, images_dir, io) ==
    IF ~pil_img.ok
    THEN [acc EXCEPT !.slide_text_parts = Append(@, ImageFailureNote(pil_img.error))]
    ELSE PptxSaveImage(acc, img_name, OptimizeImage(pil_img.image), image_format,
                       images_dir, io)

\* convert_file, "Handle images": the try around one picture. The counter
\* is incremented first; any exception becomes the failure note.
PptxPicture(shape, acc, slide_num, image_format, images_dir, heap, io) ==
    PptxOpenedImage([acc EXCEPT !.image_counter = @ + 1],
                    "slide" \o IntStr(slide_num) \o "_image_"
                    \o Fmt03d(acc.image_counter + 1),
                    PilOpen(shape.blob, heap), image_format, images_dir, io)

\* if <the shape is of this kind> and text.strip(): slide_text_parts.append(text)
AppendShapeText(acc, ofKind, text) ==
    IF ofKind /\ StrStrip(text) # ""
    THEN [acc EXCEPT !.slide_text_parts = Append(@, text)]
    ELSE acc

\* if extract_images and shape.shape_type == MSO_SHAPE_TYPE.PICTURE
PptxShapeImage(shape, acc, slide_num, extract_images, image_format, images_dir, heap, io) ==
    IF extract_images /\ shape.shape_type = "PICTURE"
    THEN PptxPicture(shape, acc, slide_num, image_format, images_dir, heap, io)
    ELSE acc

\* if shape.has_table: ... if table_md: slide_tables.append(table_md)
AppendShapeTable(acc, shape) ==
    IF shape.has_table /\ ExtractTable(shape.table) # ""
    THEN [acc EXCEPT !.slide_tables = Append(@, ExtractTable(shape.table))]
    ELSE acc

\* convert_file, "Process shapes on the slide": text frame, table, picture,
\* group. An exception outside the picture's try leaves the conversion.
RECURSIVE PptxShapes(_, _, _, _, _, _, _, _)
PptxShapes(shapes, acc, slide_num, extract_images, image_format, images_dir, heap, io) ==
    IF Len(shapes) = 0 \/ acc.raised THEN acc
    ELSE IF ShapeRaises(Head(shapes))
    THEN [acc EXCEPT !.raised = TRUE, !.exc = "NotImplementedError",
                     !.error = "BaseShape does not implement shape_type"]
    ELSE PptxShapes(Tail(shapes),
                    AppendShapeText(
                        PptxShapeImage(Head(shapes),
                                       AppendShapeTable(
                                           AppendShapeText(acc, Head(shapes).has_text_frame,
                                                           ExtractTextFromShape(Head(shapes))),
                                           Head(shapes)),
                                       slide_num, extract_images, image_format,
                                       images_dir, heap, io),
                        Head(shapes).shape_type = "GROUP",
                        ExtractFromGroup(Head(shapes))),
                    slide_num, extract_images, image_format, images_dir, heap, io)

\* convert_file, the head of a slide: its title line and layout line.
OpenSlide(acc, slide, slide_num) ==
    [acc EXCEPT !.markdown_parts =
                    @ \o <<"\n## Slide " \o IntStr(slide_num) \o "\n",
                           "*Layout: " \o slide.layout \o "*\n">>,
                !.slide_text_parts = <<>>,
                !.slide_tables = <<>>]

\* convert_file, the foot of a slide: its joined text, its tables and the
\* rule.
CloseSlide(walked) ==
    [walked EXCEPT !.markdown_parts =
                       @ \o (IF Len(walked.slide_text_parts) > 0
                             THEN <<StrJoin(walked.slide_text_parts, "\n")>>
                             ELSE <<>>)
                         \o (IF Len(walked.slide_tables) > 0
                             THEN <<"\n### Tables\n">> \o walked.slide_tables
                             ELSE <<>>)
                         \o <<"\n---\n">>]

\* convert_file, "Process each slide"
RECURSIVE PptxSlides(_, _, _, _, _, _, _, _)
PptxSlides(slides, acc, slide_num, extract_images, image_format, images_dir, heap, io) ==
    IF Len(slides) = 0 \/ acc.raised THEN acc
    ELSE PptxSlides(Tail(slides),
                    CloseSlide(PptxShapes(Head(slides).shapes,
                                          OpenSlide(acc, Head(slides), slide_num),
                                          slide_num, extract_images, image_format,
                                          images_dir, heap, io)),
                    slide_num + 1, extract_images, image_format, images_dir, heap, io)

\* convert_file, the header and the walk over the slides of prs.
PptxDocument(prs, file, extract_images, image_format, images_dir, heap, io) ==
    PptxSlides(prs,
               [raised |-> FALSE, exc |-> "", error |-> "",
                image_counter |-> 0, att |-> 0, all_images |-> <<>>,
                writes |-> <<>>, slide_text_parts |-> <<>>, slide_tables |-> <<>>,
                markdown_parts |->
                    <<"# PowerPoint: " \o file.name \o "\n",
                      "**Total slides: " \o IntStr(Len(prs)) \o "**\n",
                      "---\n">>],
               1, extract_images, image_format, images_dir, heap, io)

\* convert_file, "Combine all parts" and the result dict.
PptxResult(done, now) ==
    IF done.raised THEN AdapterRaised(done.exc, done.error, done.writes)
    ELSE AdapterResult(StrJoin(done.markdown_parts, "\n"), done.all_images, now,
                       done.writes)

\* PowerPointConverter.convert_file, after its own checks of the path
ConvertPptx(file, extract_images, image_format, images_dir, now, heap, io) ==
    IF file.data = ""
    THEN AdapterRaised("PackageNotFoundError", "Package not found", <<>>)
    ELSE PptxResult(PptxDocument(Presentation(file.data), file, extract_images,
                                 image_format, images_dir, heap, io), now)

(***************************************************************************)
(* The two convert_file entry points.                                      *)
(***************************************************************************)
NoResult ==
    [markdown |-> "", images |-> <<>>, metadata |-> [converted_at |-> NoTime],
     output_path |-> "", conversion_dir |-> "", file_type |-> ""]

\* A call that raised: the exception, the cache as the call left it, the
\* adapter that ran ("": none) and the image files it wrote.
Raised(exc, error, f, adapter, writes) ==
    [outcome |-> "raised", exc |-> exc, error |-> error, fs |-> f,
     result |-> NoResult, adapter |-> adapter, writes |-> writes]

Returned(result, f, adapter, writes) ==
    [outcome |-> "returned", exc |-> "", error |-> "", fs |-> f,
     result |-> result, adapter |-> adapter, writes |-> writes]

\* SUPPORTED_FORMATS
SupportedFormats ==
    <<[file_type |-> "word", extensions |-> <<".docx", ".doc">>],
      [file_type |-> "excel", extensions |-> <<".xlsx", ".xls">>],
      [file_type |-> "powerpoint", extensions |-> <<".pptx", ".ppt">>]>>

InList(x, list) == \E i \in 1..Len(list) : list[i] = x

\* A get_file_type that takes every unknown suffix for a word document.
GetFileTypeDefaultWord(name) ==
    LET suffix == StrLower(PathSuffix(name))
    IN IF suffix \in {".xlsx", ".xls"} THEN "excel"
       ELSE IF suffix \in {".pptx", ".ppt"} THEN "powerpoint"
       ELSE "word"

\* A get_file_type that compares the suffix as it is written.
GetFileTypeCaseSensitive(name) ==
    LET suffix == PathSuffix(name)
        hits == {i \in 1..Len(SupportedFormats) :
                    InList(suffix, SupportedFormats[i].extensions)}
    IN IF hits = {} THEN None
       ELSE SupportedFormats[CHOOSE i \in hits : \A j \in hits : i <= j].file_type

\* get_file_type: the first type whose extensions hold the lowered suffix.
GetFileType(name) ==
    LET suffix == StrLower(PathSuffix(name))
        hits == {i \in 1..Len(SupportedFormats) :
                    InList(suffix, SupportedFormats[i].extensions)}
    IN IF hits = {} THEN None
       ELSE SupportedFormats[CHOOSE i \in hits : \A j \in hits : i <= j].file_type

\* A save that opens the markdown file for appending.
SaveMarkdownAppend(f, md_path, markdown) ==
    IF md_path \in DOMAIN f.files THEN WriteData(f, md_path, markdown)
    ELSE WriteFile(f, md_path, markdown)

\* The save of the markdown: with open(md_path, "w") as f: f.write(...)
SaveMarkdown(f, md_path, markdown) == WriteFile(f, md_path, markdown)

\* DocxConverter.convert_file
DocxConvertFile(f, file, exists, extract_images, image_format, output_name, now, io) ==
    LET suffix == StrLower(PathSuffix(file.name))
        \* "Save markdown file" and the result dict, unless the adapter raised
        Finish(made, r, conversion_dir, name) ==
            IF r.raised
            THEN Raised(r.exc, r.error, ApplyWrites(made, r.writes), "word", r.writes)
            ELSE Returned([markdown |-> r.markdown, images |-> r.images,
                           metadata |-> r.metadata,
                           output_path |-> PathJoin(conversion_dir, name \o ".md"),
                           conversion_dir |-> conversion_dir, file_type |-> ""],
                          SaveMarkdown(ApplyWrites(made, r.writes),
                                       PathJoin(conversion_dir, name \o ".md"),
                                       r.markdown),
                          "word", r.writes)
        \* the two mkdir calls and "Convert based on file type"
        Run(name, conversion_dir, conversion_images_dir) ==
            Finish(Mkdir(Mkdir(f, conversion_dir), conversion_images_dir),
                   IF suffix = ".docx"
                   THEN ConvertDocx(file, extract_images, image_format,
                                    conversion_images_dir, io)
                   ELSE ConvertDocWithMammoth(file, extract_images, image_format,
                                              conversion_images_dir, now, io),
                   conversion_dir, name)
        \* "Create conversion-specific directory"
        Named(name) ==
            Run(name, PathJoin(OutputDir, name),
                PathJoin(PathJoin(OutputDir, name), "images"))
    IN IF ~exists
       THEN Raised("FileNotFoundError", "File not found: " \o file.name, f, "", <<>>)
       ELSE IF suffix \notin {".docx", ".doc"}
       THEN Raised("ValueError",
                   "Unsupported file format: " \o suffix
                   \o ". Only .docx and .doc are supported.", f, "", <<>>)
       ELSE Named(OutputNameFor(file, output_name))

\* OfficeConverter.convert_file
OfficeConvertFile(f, file, exists, extract_images, image_format, output_name, now, heap, io) ==
    LET \* result["file_type"] = file_type, after the word converter returned
        Word(out, file_type) ==
            IF out.outcome = "raised" THEN out
            ELSE [out EXCEPT !.result.file_type = file_type]
        \* if "output_path" not in result: the save; and the result dict
        Finish(made, r, conversion_dir, name, file_type, adapter) ==
            IF r.raised
            THEN Raised(r.exc, r.error, ApplyWrites(made, r.writes), adapter, r.writes)
            ELSE Returned([markdown |-> r.markdown, images |-> r.images,
                           metadata |-> r.metadata,
                           output_path |-> PathJoin(conversion_dir, name \o ".md"),
                           conversion_dir |-> conversion_dir,
                           file_type |-> file_type],
                          SaveMarkdown(ApplyWrites(made, r.writes),
                                       PathJoin(conversion_dir, name \o ".md"),
                                       r.markdown),
                          adapter, r.writes)
        \* the two mkdir calls and "Convert based on file type"
        Run(file_type, name, conversion_dir, images_dir) ==
            IF file_type = "word"
            THEN Word(DocxConvertFile(Mkdir(Mkdir(f, conversion_dir), images_dir),
                                      file, exists, extract_images, image_format,
                                      name, now, io),
                      file_type)
            ELSE IF file_type = "excel"
            THEN Finish(Mkdir(Mkdir(f, conversion_dir), images_dir),
                        ConvertExcel(file, extract_images, image_format,
                                     images_dir, now, heap, io),
                        conversion_dir, name, file_type, "excel")
            ELSE Finish(Mkdir(Mkdir(f, conversion_dir), images_dir),
                        ConvertPptx(file, extract_images, image_format,
                                    images_dir, now, heap, io),
                        conversion_dir, name, file_type, "powerpoint")
        \* "Create conversion-specific directory"
        Named(file_type, name) ==
            Run(file_type, name, PathJoin(OutputDir, name),
                PathJoin(PathJoin(OutputDir, name), "images"))
        \* "Determine file type"
        Typed(file_type) ==
            IF file_type = None
            THEN Raised("ValueError",
                        "Unsupported file format: " \o PathSuffix(file.name)
                        \o ". Supported formats: .docx, .doc, .xlsx, .xls, .pptx, .ppt",
                        f, "", <<>>)
            ELSE Named(file_type, OutputNameFor(file, output_name))
    IN IF ~exists
       THEN Raised("FileNotFoundError", "File not found: " \o file.name, f, "", <<>>)
       ELSE Typed(GetFileType(file.name))

(***************************************************************************)
(* The converter in use: calls of convert_file on the source file.         *)
(***************************************************************************)
ImageFormats == {"file", "base64", "both"}
OutputNames == {None, "out"}
HeapAddresses == {16, 32}

SourceNames == {"r.docx", "r.doc", "r.xlsx", "r.pptx", "r.txt"}

NoCall ==
    [entry |-> "", extract_images |-> FALSE, image_format |-> "",
     output_name |-> None, exists |-> FALSE, io |-> 0,
     outcome |-> "", exc |-> "", error |-> "", result |-> NoResult,
     adapter |-> "", writes |-> <<>>, before |-> InitialFs]

CallRecord(entry, exists, extract_images, image_format, output_name, io, out, before) ==
    [entry |-> entry, extract_images |-> extract_images,
     image_format |-> image_format, output_name |-> output_name,
     exists |-> exists, io |-> io,
     outcome |-> out.outcome, exc |-> out.exc, error |-> out.error,
     result |-> out.result, adapter |-> out.adapter, writes |-> out.writes,
     before |-> before]

ConvIdle ==
    /\ src = [name |-> "", data |-> ""]
    /\ fs = InitialFs
    /\ last = NoCall
    /\ prev = NoCall
    /\ clock = 0
    /\ env = [budget |-> 0, ioMax |-> 0, names |-> OutputNames]

\* A source file of a few bytes, converted up to MaxCalls times on storage
\* that takes every write.
InitConv ==
    /\ src \in [name : SourceNames, data : ByteStreams(MaxSrcLen)]
    /\ fs = InitialFs
    /\ last = NoCall
    /\ prev = NoCall
    /\ clock = 0
    /\ env = [budget |-> MaxCalls, ioMax |-> 0, names |-> OutputNames]

\* A source file of up to MaxBytes bytes, converted once on storage where
\* one open of an image file may fail.
InitOnce ==
    /\ src \in [name : SourceNames \ {"r.txt"}, data : ByteStreams(MaxBytes)]
    /\ fs = InitialFs
    /\ last = NoCall
    /\ prev = NoCall
    /\ clock = 0
    /\ env = [budget |-> 1, ioMax |-> MaxIoFail, names |-> OutputNames]

\* File names of every supported suffix, in mixed case, with several
\* suffixes, with none, and with a leading or a trailing dot; each converted
\* once.
DispatchNames ==
    {"a.docx", "a.doc", "a.xlsx", "a.xls", "a.pptx", "a.ppt",
     "a.DOCX", "a.Xls", "a.PpTx", "a.pdf", "a.txt",
     "a.docx.txt", "a.txt.pptx", "docx", ".xlsx", "a.docx.", "a.docx "}

InitDispatch ==
    /\ src \in [name : DispatchNames, data : ByteStreams(1)]
    /\ fs = InitialFs
    /\ last = NoCall
    /\ prev = NoCall
    /\ clock = 0
    /\ env = [budget |-> 1, ioMax |-> 0, names |-> OutputNames]

\* The call's effect on the cache and what the caller holds afterwards.
Called(entry, exists, extract_images, image_format, output_name, io, out) ==
    /\ fs' = out.fs
    /\ prev' = last
    /\ last' = CallRecord(entry, exists, extract_images, image_format,
                          output_name, io, out, fs)
    /\ clock' = clock + 1
    /\ env' = [env EXCEPT !.budget = @ - 1]
    /\ UNCHANGED <<src, fmtVars, tableVars, procVars, unitVars>>

\* OfficeConverter.convert_file(src, extract_images, image_format, output_name)
OfficeConvert ==
    /\ env.budget > 0
    /\ \E extract_images \in BOOLEAN, image_format \in ImageFormats,
          output_name \in env.names, heap \in HeapAddresses, io \in 0..env.ioMax :
          Called("office", TRUE, extract_images, image_format, output_name, io,
                 OfficeConvertFile(fs, src, TRUE, extract_images, image_format,
                                   output_name, clock, heap, io))

\* DocxConverter.convert_file(src, extract_images, image_format, output_name)
DocxConvert ==
    /\ env.budget > 0
    /\ \E extract_images \in BOOLEAN, image_format \in ImageFormats,
          output_name \in env.names, io \in 0..env.ioMax :
          Called("docx", TRUE, extract_images, image_format, output_name, io,
                 DocxConvertFile(fs, src, TRUE, extract_images, image_format,
                                 output_name, clock, io))

\* OfficeConverter.convert_file on a path that names no file.
ConvertMissing ==
    /\ env.budget > 0
    /\ Called("office", FALSE, TRUE, "file", None, 0,
              OfficeConvertFile(fs, [name |-> "gone.docx", data |-> ""], FALSE,
                                TRUE, "file", None, clock, 16, 0))

(***************************************************************************)
(* Conversions of the source file running at the same time, as the server  *)
(* runs them for concurrent requests, and a reader of the cache. A         *)
(* conversion's writes are the steps the code performs: open(path, "w")    *)
(* creates or truncates the file, f.write and the close put the data.      *)
(***************************************************************************)
Procs == 1..MaxProcs
NoRead == [path |-> "", data |-> "", pcs |-> <<>>]

ProcIdle ==
    /\ procs = [p \in Procs |-> [pc |-> "done", todo |-> <<>>]]
    /\ planned = {}
    /\ seen = NoRead

InitConcurrent ==
    /\ src \in [name : SourceNames, data : ByteStreams(MaxSrcLen)]
    /\ fs = InitialFs
    /\ last = NoCall
    /\ prev = NoCall
    /\ clock = 0
    /\ env = [budget |-> 0, ioMax |-> 0, names |-> OutputNames]
    /\ procs = [p \in Procs |-> [pc |-> "idle", todo |-> <<>>]]
    /\ planned = {}
    /\ seen = NoRead

\* The files a call writes, in order: the adapter's image files, then the
\* markdown file when the adapter returned.
OutputWrites(out) ==
    out.writes
    \o (IF out.outcome = "returned"
        THEN <<[path |-> out.result.output_path, data |-> out.result.markdown]>>
        ELSE <<>>)

\* After the checks of convert_file and its mkdir calls: what is left to do.
Begun(p, conversion_dir, ran, todo) ==
    /\ fs' = (IF ran THEN Mkdir(Mkdir(fs, conversion_dir),
                                PathJoin(conversion_dir, "images"))
              ELSE fs)
    /\ procs' = [procs EXCEPT ![p] = [pc |-> IF Len(todo) = 0 THEN "done" ELSE "ready",
                                      todo |-> todo]]
    /\ planned' = planned \cup {todo[i] : i \in 1..Len(todo)}
    /\ UNCHANGED <<src, last, prev, clock, env, seen, fmtVars, tableVars, unitVars>>

\* OfficeConverter.convert_file up to its first write: the checks, the
\* output name, the two mkdir calls and the adapter's work in memory.
BeginConvert(p) ==
    /\ procs[p].pc = "idle"
    /\ \E extract_images \in BOOLEAN, image_format \in ImageFormats,
          heap \in HeapAddresses :
          Begun(p, PathJoin(OutputDir, OutputNameFor(src, None)),
                GetFileType(src.name) # None,
                OutputWrites(OfficeConvertFile(fs, src, TRUE, extract_images,
                                               image_format, None, clock, heap, 0)))

\* with open(path, "w") as f: the file exists and is empty.
OpenOutput(p) ==
    /\ procs[p].pc = "ready"
    /\ fs' = OpenTruncate(fs, Head(procs[p].todo).path)
    /\ procs' = [procs EXCEPT ![p].pc = "opened"]
    /\ UNCHANGED <<src, last, prev, clock, env, planned, seen, fmtVars, tableVars, unitVars>>

\* f.write(data) and the close of the with block.
WriteOutput(p) ==
    /\ procs[p].pc = "opened"
    /\ fs' = WriteData(fs, Head(procs[p].todo).path, Head(procs[p].todo).data)
    /\ procs' = [procs EXCEPT ![p] =
                    [pc |-> IF Len(procs[p].todo) = 1 THEN "done" ELSE "ready",
                     todo |-> Tail(procs[p].todo)]]
    /\ UNCHANGED <<src, last, prev, clock, env, planned, seen, fmtVars, tableVars, unitVars>>

\* Another client opens a file of the cache and reads it to its end.
ReaderOpens ==
    /\ seen = NoRead
    /\ \E path \in DOMAIN fs.files :
          seen' = [path |-> path, data |-> fs.files[path],
                   pcs |-> [p \in Procs |-> procs[p].pc]]
    /\ UNCHANGED <<src, fs, last, prev, clock, env, procs, planned, fmtVars, tableVars, unitVars>>

(***************************************************************************)
(* The image optimizer: ImageOptimizer of image_optimizer.py.              *)
(* A decoded image is its mode, its size and the number of distinct        *)
(* colours it shows once converted to RGB. The optimizer is its            *)
(* configuration: [max_width, max_height, prefer_webp].                    *)
(***************************************************************************)
MaxColors == 1000       \* getcolors(maxcolors=1000)
SampleSide == 100       \* min(100, width) * min(100, height)

ImageModes == {"RGB", "RGBA", "LA", "P", "L", "CMYK"}
ImageDims == {1, 2, 3, 22, 2140}
ColorCounts == {1, 2, MaxColors + 1}
Images ==
    {im \in [mode : ImageModes, width : ImageDims, height : ImageDims,
             colors : ColorCounts] : im.colors <= im.width * im.height}
OptimizerConfigs ==
    {[max_width |-> 2, max_height |-> 2, prefer_webp |-> p] : p \in BOOLEAN}
    \cup {[max_width |-> 15, max_height |-> 15, prefer_webp |-> p] : p \in BOOLEAN}
    \cup {[max_width |-> 1920, max_height |-> 1080, prefer_webp |-> p] : p \in BOOLEAN}
ForceFormats == {None, "jpg", "PNG"}

\* int(x * (a / b)) in IEEE-754 double arithmetic, as Python computes it:
\* a / b is rounded to a double, and so is its product with x. For the
\* sizes above the product is exact or falls just below the integer
\* x * a / b in the cases listed, where truncation gives one less.
InexactProducts == {<<22, 15, 22>>, <<22, 1920, 22>>, <<2140, 1080, 2140>>}
FloatMulInt(x, a, b) ==
    IF <<x, a, b>> \in InexactProducts THEN (x * a) \div b - 1 ELSE (x * a) \div b

\* ImageOptimizer._resize_if_needed. Image.resize raises ValueError
\* ("height and width must be > 0") for a size with a zero.
ResizeIfNeeded(cfg, image) ==
    IF image.width <= cfg.max_width /\ image.height <= cfg.max_height
    THEN [ok |-> TRUE, resized |-> FALSE, width |-> image.width,
          height |-> image.height]
    ELSE LET byWidth == cfg.max_width * image.height <= cfg.max_height * image.width
             a == IF byWidth THEN cfg.max_width ELSE cfg.max_height
             b == IF byWidth THEN image.width ELSE image.height
             new_width == FloatMulInt(image.width, a, b)
             new_height == FloatMulInt(image.height, a, b)
         IN [ok |-> new_width >= 1 /\ new_height >= 1, resized |-> TRUE,
             width |-> new_width, height |-> new_height]

\* The numbers of distinct colours the image may show after the resize: a
\* single-colour image stays one, any other is resampled to some number of
\* colours its new size has room for.
ResizedColors(image, size) ==
    IF ~size.resized \/ ~size.ok THEN {image.colors}
    ELSE IF image.colors = 1 THEN {1}
    ELSE {c \in ColorCounts : c <= size.width * size.height}

\* ImageOptimizer._is_photo_like: getcolors answers None above MaxColors
\* colours; otherwise len(colors) / sample_size > 0.3.
IsPhotoLike(image) ==
    LET sample_size ==
            (IF SampleSide < image.width THEN SampleSide ELSE image.width)
            * (IF SampleSide < image.height THEN SampleSide ELSE image.height)
    IN IF image.colors > MaxColors THEN TRUE
       ELSE IF sample_size > 0 THEN 10 * image.colors > 3 * sample_size
       ELSE FALSE

\* _choose_format asking for the photograph before the transparency.
ChooseFormatPhotoFirst(cfg, image, has_transparency) ==
    IF IsPhotoLike(image) THEN (IF cfg.prefer_webp THEN "webp" ELSE "jpg")
    ELSE IF cfg.prefer_webp THEN "webp"
    ELSE "png"

\* ImageOptimizer._choose_format
ChooseFormat(cfg, image, has_transparency) ==
    IF has_transparency THEN (IF cfg.prefer_webp THEN "webp" ELSE "png")
    ELSE IF IsPhotoLike(image) THEN (IF cfg.prefer_webp THEN "webp" ELSE "jpg")
    ELSE IF cfg.prefer_webp THEN "webp"
    ELSE "png"

\* What a save gives back: the codec, the mode encoded and the extension,
\* or the error image.save raised.
Saved(codec, mode, ext) ==
    [raised |-> FALSE, exc |-> "", error |-> "", codec |-> codec, mode |-> mode,
     ext |-> ext]
SaveRaised(exc, error) ==
    [raised |-> TRUE, exc |-> exc, error |-> error, codec |-> None, mode |-> None,
     ext |-> None]

\* ImageOptimizer._save_as_webp
SaveAsWebp(image, has_transparency) ==
    Saved("WEBP",
          IF has_transparency THEN "RGBA"
          ELSE IF image.mode = "RGBA" THEN "RGB" ELSE image.mode,
          ".webp")

\* ImageOptimizer._save_as_png: the image is saved in the mode it has, and
\* Pillow's PNG writer knows no CMYK.
PngModes == {"1", "L", "LA", "I", "P", "RGB", "RGBA"}
SaveAsPng(image) ==
    IF image.mode \in PngModes THEN Saved("PNG", image.mode, ".png")
    ELSE SaveRaised("OSError", "cannot write mode " \o image.mode \o " as PNG")

\* ImageOptimizer._save_as_jpeg: every mode ends as RGB.
SaveAsJpeg(image, has_transparency) == Saved("JPEG", "RGB", ".jpg")

\* What optimize_image hands to its caller: the (bytes, extension) pair,
\* here the codec, the mode and the size encoded with the extension, or the
\* error raised; output_format is the format settled on and photo what
\* _is_photo_like answered when it was asked.
OptReturned(image, output_format, photo, resized, saved) ==
    [output_format |-> output_format, raised |-> saved.raised, exc |-> saved.exc, error |-> saved.error,
     codec |-> saved.codec, mode |-> saved.mode, ext |-> saved.ext,
     width |-> IF saved.raised THEN 0 ELSE image.width,
     height |-> IF saved.raised THEN 0 ELSE image.height,
     photo |-> photo, resized |-> resized]
OptRaised(exc, error) ==
    [output_format |-> None, raised |-> TRUE, exc |-> exc, error |-> error, codec |-> None, mode |-> None,
     ext |-> None, width |-> 0, height |-> 0, photo |-> None, resized |-> FALSE]

\* optimize_image, "Optimize based on format"
SaveAs(output_format, image, has_transparency) ==
    IF output_format = "webp" THEN SaveAsWebp(image, has_transparency)
    ELSE IF output_format = "png" THEN SaveAsPng(image)
    ELSE SaveAsJpeg(image, has_transparency)

\* optimize_image, from "Determine best format" on, for the resized image.
EncodeAs(output_format, image, photo, has_transparency, resized) ==
    OptReturned(image, output_format, photo, resized,
                SaveAs(output_format, image, has_transparency))

EncodeImage(cfg, image, force_format, has_transparency, resized) ==
    IF force_format \notin {None, ""}
    THEN EncodeAs(StrLower(force_format), image, None, has_transparency, resized)
    ELSE EncodeAs(ChooseFormat(cfg, image, has_transparency), image,
                  IsPhotoLike(image), has_transparency, resized)

\* optimize_image, after the resize: size is what _resize_if_needed gave
\* and colors the number of colours the image shows in that size.
OptimizeResized(cfg, image, size, colors, force_format) ==
    IF ~size.ok THEN OptRaised("ValueError", "height and width must be > 0")
    ELSE EncodeImage(cfg,
                     [mode |-> image.mode, width |-> size.width,
                      height |-> size.height, colors |-> colors],
                     force_format, image.mode \in {"RGBA", "LA", "P"}, size.resized)

\* ImageOptimizer.optimize_image
OptimizeImageWith(cfg, image, force_format, colors) ==
    OptimizeResized(cfg, image, ResizeIfNeeded(cfg, image), colors, force_format)

\* optimize_bytes handing back the bytes it could not open as they are.
OptimizeOpenedAsIs(cfg, opened, image, force_format, colors) ==
    IF ~opened.ok
    THEN OptReturned(image, None, None, FALSE, Saved("RAW", image.mode, ".bin"))
    ELSE OptimizeImageWith(cfg, image, force_format, colors)

\* ImageOptimizer.optimize_bytes: Image.open on the bytes, which stand for
\* the image when they are a raster, and optimize_image on what it opened.
OptimizeOpened(cfg, opened, image, force_format, colors) ==
    IF ~opened.ok THEN OptRaised("UnidentifiedImageError", opened.error)
    ELSE OptimizeImageWith(cfg, image, force_format, colors)

OptimizeBytes(cfg, image_bytes, image, force_format, colors, heap) ==
    OptimizeOpened(cfg, PilOpen(image_bytes, heap), image, force_format, colors)

\* The byte strings handed to optimize_bytes: none at all, bytes that are
\* no raster, and the encoding of the image.
ImageByteStrings == {"", BadBlob, GoodBlob}

InitOpt ==
    /\ opt \in [cfg : OptimizerConfigs, image : Images, force_format : ForceFormats]
    /\ optOut = [by |-> "none"]

OptimizeImageCall ==
    /\ optOut.by = "none"
    /\ \E colors \in ResizedColors(opt.image, ResizeIfNeeded(opt.cfg, opt.image)) :
          optOut' = [by |-> "image", image_bytes |-> None,
                     size |-> ResizeIfNeeded(opt.cfg, opt.image),
                     out |-> OptimizeImageWith(opt.cfg, opt.image, opt.force_format,
                                               colors)]
    /\ UNCHANGED <<opt, fmtVars, tableVars, convVars, procVars, docTableVars, paraVars, bookVars, restVars>>

OptimizeBytesCall ==
    /\ optOut.by = "none"
    /\ \E image_bytes \in ImageByteStrings, heap \in HeapAddresses,
          colors \in ResizedColors(opt.image, ResizeIfNeeded(opt.cfg, opt.image)) :
          optOut' = [by |-> "bytes", image_bytes |-> image_bytes,
                     out |-> OptimizeBytes(opt.cfg, image_bytes, opt.image,
                                           opt.force_format, colors, heap)]
    /\ UNCHANGED <<opt, fmtVars, tableVars, convVars, procVars, docTableVars, paraVars, bookVars, restVars>>

(***************************************************************************)
(* One paragraph through DocxConverter._process_paragraph: its style name, *)
(* its numbering level and its runs.                                       *)
(***************************************************************************)
ParaStyles ==
    {"", "Normal", "Title", "Heading", "Heading 0", "Heading 1", "Heading 6",
     "Heading 7", "Heading 9", "Heading -1", "Heading 2 Char", "Heading1"}
ParaRuns ==
    {DocxRunOf("t"), [DocxRunOf("t") EXCEPT !.bold = TRUE],
     [DocxRunOf("t") EXCEPT !.text = " "]}
Paragraphs ==
    [style : ParaStyles, ilvl : {NoTime, 0, 1},
     runs : UNION {[1..n -> ParaRuns] : n \in 0..MaxRuns}]

InitPara ==
    /\ paraIn \in Paragraphs
    /\ paraOut = [done |-> FALSE, text |-> ""]

ProcessParagraphCall ==
    /\ ~paraOut.done
    /\ \E extract_images \in BOOLEAN :
          paraOut' = [done |-> TRUE,
                      text |-> ProcessParagraph(paraIn, extract_images, "file",
                                                "images", 0, 0, 0).md_text]
    /\ UNCHANGED <<paraIn, fmtVars, tableVars, convVars, procVars, docTableVars, optVars, bookVars, restVars>>

(***************************************************************************)
(* One workbook through the sheet loop of ExcelConverter.convert_file.     *)
(***************************************************************************)
SheetCells == {NoneCell, StrCell(" "), IntCell(0)}
SheetRowSet == UNION {[1..n -> SheetCells] : n \in 1..MaxCols}
SheetRowSeqs == UNION {[1..n -> SheetRowSet] : n \in 0..MaxRows}
ShortRowSeqs == {<<>>} \cup {<<<<c>>>> : c \in SheetCells}

\* wb.sheetnames, in workbook order: one sheet of any rows, or two of at
\* most one cell each.
Workbooks ==
    {<<[name |-> "Sheet1", rows |-> rows, images |-> <<>>]>> : rows \in SheetRowSeqs}
    \cup {<<[name |-> "Sheet1", rows |-> r1, images |-> <<>>],
            [name |-> "Sheet2", rows |-> r2, images |-> <<>>]>> :
             r1 \in ShortRowSeqs, r2 \in ShortRowSeqs}

InitBook ==
    /\ book \in Workbooks
    /\ bookOut = [done |-> FALSE, parts |-> <<>>, markdown |-> ""]

\* What the sheet loop left in markdown_parts, and the markdown joined.
BookRendered(done) ==
    [done |-> TRUE, parts |-> done.markdown_parts,
     markdown |-> ExcelResult(done, 0).markdown]

ReadWorkbook ==
    /\ ~bookOut.done
    /\ \E extract_images \in BOOLEAN :
          bookOut' = BookRendered(
                         ExcelSheets(book,
                                     [raised |-> FALSE, exc |-> "", error |-> "",
                                      image_counter |-> 0, att |-> 0,
                                      all_images |-> <<>>, writes |-> <<>>,
                                      markdown_parts |-> <<>>],
                                     extract_images, "file", "images", 16, 0))
    /\ UNCHANGED <<book, fmtVars, tableVars, convVars, procVars, docTableVars, optVars, paraVars, restVars>>

(***************************************************************************)
(* The cache as the server's tools see it: get_cache_info and clear_cache, *)
(* which OfficeConverter hands to its DocxConverter.                       *)
(***************************************************************************)
EndsWith(s, suffix) ==
    Len(s) >= Len(suffix) /\ SubSeq(s, Len(s) - Len(suffix) + 1, Len(s)) = suffix

\* for item in self.output_dir.iterdir(): if item.is_dir()
CacheItems(f) == {d \in f.dirs : PathParent(d) = OutputDir}

\* item.glob("*.md")
MdFiles(f, item) ==
    {q \in DOMAIN f.files : PathParent(q) = item /\ EndsWith(PathName(q), ".md")}

\* list(images_dir.glob("*")) if images_dir.exists() else []
ImageEntries(f, item) ==
    IF PathJoin(item, "images") \in f.dirs
    THEN {q \in DOMAIN f.files \cup f.dirs : PathParent(q) = PathJoin(item, "images")}
    ELSE {}

\* sum(f.stat().st_size for f in files)
RECURSIVE SizeOf(_, _)
SizeOf(f, paths) ==
    IF paths = {} THEN 0
    ELSE LET q == CHOOSE q \in paths : TRUE
         IN (IF q \in DOMAIN f.files THEN Len(f.files[q]) ELSE 0) + SizeOf(f, paths \ {q})

\* One entry of conversions
ConversionInfo(f, item) ==
    [name |-> PathName(item), path |-> item,
     markdown_files |-> MdFiles(f, item),
     image_count |-> Cardinality(ImageEntries(f, item)),
     image_paths |-> ImageEntries(f, item),
     size_bytes |-> SizeOf(f, MdFiles(f, item)) + SizeOf(f, ImageEntries(f, item))]

RECURSIVE TotalSize(_)
TotalSize(conversions) ==
    IF conversions = {} THEN 0
    ELSE LET c == CHOOSE c \in conversions : TRUE
         IN c.size_bytes + TotalSize(conversions \ {c})

\* DocxConverter.get_cache_info
GetCacheInfo(f) ==
    IF OutputDir \notin f.dirs
    THEN [conversions |-> {}, total_conversions |-> 0, total_size_bytes |-> 0]
    ELSE LET conversions == {ConversionInfo(f, item) : item \in CacheItems(f)}
         IN [conversions |-> conversions,
             total_conversions |-> Cardinality(conversions),
             total_size_bytes |-> TotalSize(conversions)]

\* shutil.rmtree(item)
RmTree(f, item) ==
    LET gone(q) == q = item \/ StartsWith(q, item \o "/")
    IN [dirs |-> {d \in f.dirs : ~gone(d)},
        files |-> [q \in {q \in DOMAIN f.files : ~gone(q)} |-> f.files[q]]]

RECURSIVE RmTrees(_, _)
RmTrees(f, items) ==
    IF items = {} THEN f
    ELSE LET item == CHOOSE item \in items : TRUE
         IN RmTrees(RmTree(f, item), items \ {item})

\* DocxConverter.clear_cache
ClearCache(f) ==
    [fs |-> RmTrees(f, CacheItems(f)),
     cleared |-> CacheItems(f), count |-> Cardinality(CacheItems(f))]

\* Nothing asked of the cache yet. The "at" of a result is the clock when
\* it was given; the clock moves at every conversion and every clearing.
NoReport == [at |-> -1, conversions |-> {}, total_conversions |-> 0, total_size_bytes |-> 0]
NoCache == [info |-> NoReport, cleared |-> [at |-> -1, count |-> 0, before |-> NoReport]]
CacheIdle == cache = NoCache

\* Output names a caller may give: none, a plain name, and "." .
CacheOutputNames == {None, "out", "."}

\* Sources whose conversion writes a markdown file, with and without an
\* image file.
CacheSources == [name : {"r.docx", "r.xlsx", "r.pptx"}, data : {"t", "i"}]

InitCache ==
    /\ src \in CacheSources
    /\ fs = InitialFs
    /\ last = NoCall
    /\ prev = NoCall
    /\ clock = 0
    /\ env = [budget |-> MaxCalls, ioMax |-> 0, names |-> CacheOutputNames]

\* The list_conversions tool: converter.get_cache_info()
CacheInfoCall ==
    /\ cache.info.at # clock
    /\ LET info == GetCacheInfo(fs)
       IN cache' = [cache EXCEPT !.info =
                       [at |-> clock, conversions |-> info.conversions,
                        total_conversions |-> info.total_conversions,
                        total_size_bytes |-> info.total_size_bytes]]
    /\ UNCHANGED <<convVars, fmtVars, tableVars, procVars, pureVars, deckVars, srvVars, mdVars>>

\* The clear_cache tool: converter.clear_cache()
ClearCacheCall ==
    /\ env.budget > 0
    /\ LET result == ClearCache(fs)
       IN /\ fs' = result.fs
          /\ cache' = [cache EXCEPT !.cleared =
                          [at |-> clock + 1, count |-> result.count,
                           before |-> cache.info]]
    /\ clock' = clock + 1
    /\ env' = [env EXCEPT !.budget = @ - 1]
    /\ UNCHANGED <<src, last, prev, fmtVars, tableVars, procVars, pureVars, deckVars, srvVars, mdVars>>

(***************************************************************************)
(* The presentation adapter on a presentation given by its slides.         *)
(***************************************************************************)
SlideShapes ==
    {TextShape("t"), PictureShape(GoodBlob), PictureShape(BadBlob),
     TableShape(<<<<"a", "b|c">>>>),
     GroupShape(<<TextShape("g"), PictureShape(GoodBlob)>>),
     GroupShape(<<TextShape("g"), UnrecognizedShape>>),
     UnrecognizedShape}

MaxShapes == 2
MaxSlides == 2
SlideSet == {[layout |-> "Blank", shapes |-> shapes] :
                shapes \in UNION {[1..n -> SlideShapes] : n \in 0..MaxShapes}}
Decks == UNION {[1..n -> SlideSet] : n \in 1..MaxSlides}

DeckIdle == deck = <<>> /\ deckOut = [by |-> "idle"]

InitDeck ==
    /\ deck \in [slides : Decks, extract_images : BOOLEAN, image_format : ImageFormats]
    /\ deckOut = [by |-> "idle"]

\* PowerPointConverter.convert_file on deck.slides
ConvertDeck ==
    /\ deckOut.by = "idle"
    /\ \E heap \in HeapAddresses :
          LET r == PptxResult(PptxDocument(deck.slides, [name |-> "r.pptx", data |-> ""],
                                           deck.extract_images, deck.image_format,
                                           "images", heap, 0), 0)
          IN deckOut' = [by |-> "pptx", raised |-> r.raised, exc |-> r.exc,
                         markdown |-> r.markdown, images |-> r.images]
    /\ UNCHANGED <<deck, fmtVars, tableVars, convVars, procVars, pureVars, cache, srvVars, mdVars>>

(***************************************************************************)
(* The server: call_tool(name, arguments) on the converter get_converter   *)
(* makes at the first call and keeps.                                      *)
(***************************************************************************)
\* [TextContent(type="text", text=...)]: whether the text opens with the
\* cache notice, and the "error" and "error_type" of its JSON object
\* (None: the object has no such key); ran tells that the call reached
\* converter.convert_file.
TextReply(name, notice, error, error_type) ==
    [by |-> name, propagated |-> FALSE, exc |-> "", notice |-> notice,
     error |-> error, error_type |-> error_type, ran |-> FALSE]

\* An exception that leaves call_tool
Propagated(name, exc) ==
    [by |-> name, propagated |-> TRUE, exc |-> exc, notice |-> FALSE,
     error |-> None, error_type |-> None, ran |-> FALSE]

\* except FileNotFoundError / except ValueError / except Exception
Caught(name, exc, error) ==
    IF exc \in {"FileNotFoundError", "ValueError"}
    THEN TextReply(name, TRUE, error, None)
    ELSE TextReply(name, TRUE, "Conversion failed: " \o error, exc)

SrvIdle == srv = [converter |-> FALSE, cacheOk |-> TRUE] /\ reply = [by |-> "idle"]

\* A server just started, its cache directory one that can be made or not;
\* a file to convert, readable or not a container or of no supported type.
ServerSources == [name : {"r.docx", "r.xlsx", "r.txt"}, data : {"i", ""}]

InitServer ==
    /\ src \in ServerSources
    /\ fs = InitialFs
    /\ last = NoCall
    /\ prev = NoCall
    /\ clock = 0
    /\ env = [budget |-> MaxCalls, ioMax |-> 0, names |-> {None}]
    /\ srv \in [converter : {FALSE}, cacheOk : BOOLEAN]
    /\ reply = [by |-> "idle"]

ServerFrame ==
    UNCHANGED <<src, fmtVars, tableVars, procVars, pureVars, cache, deckVars, mdVars>>

\* get_converter() returns: _converter is set, or OfficeConverter(cache_dir)
\* makes the cache directories.
Obtained == srv.converter \/ srv.cacheOk

\* call_tool when get_converter() raises: OfficeConverter.__init__ cannot
\* make the cache directory. The handler that catches the exception calls
\* get_converter() again, which raises again, outside every try.
ToolNoConverter ==
    /\ ~Obtained
    /\ reply.by = "idle"
    /\ \E name \in {"convert_document", "get_supported_formats", "no_such_tool"} :
          reply' = Propagated(name, "PermissionError")
    /\ UNCHANGED <<srv, convVars>>
    /\ ServerFrame

\* call_tool("convert_document", arguments)
ToolConvertDocument ==
    /\ Obtained /\ env.budget > 0
    /\ srv' = [srv EXCEPT !.converter = TRUE]
    /\ \E file_path \in {None, src.name, "gone.docx"},
          image_format \in {"file", "base64"}, heap \in HeapAddresses :
          IF file_path = None
          THEN /\ reply' = TextReply("convert_document", FALSE, "file_path is required", None)
               /\ UNCHANGED <<fs, last, prev, clock, env>>
          ELSE LET exists == file_path = src.name
                   file == IF exists THEN src ELSE [name |-> file_path, data |-> ""]
                   out == OfficeConvertFile(fs, file, exists, TRUE, image_format,
                                            None, clock, heap, 0)
               IN /\ fs' = out.fs
                  /\ prev' = last
                  /\ last' = CallRecord("server", exists, TRUE, image_format, None, 0,
                                        out, fs)
                  /\ clock' = clock + 1
                  /\ env' = [env EXCEPT !.budget = @ - 1]
                  /\ reply' = [(IF out.outcome = "raised"
                                THEN Caught("convert_document", out.exc, out.error)
                                ELSE TextReply("convert_document", TRUE, None, None))
                               EXCEPT !.ran = TRUE]
    /\ ServerFrame

\* call_tool("read_converted_markdown", arguments)
ToolReadMarkdown ==
    /\ Obtained
    /\ srv' = [srv EXCEPT !.converter = TRUE]
    /\ \E markdown_path \in {None, "gone.md"} \cup DOMAIN fs.files :
          reply' = IF markdown_path = None
                   THEN TextReply("read_converted_markdown", TRUE,
                                  "markdown_path is required", None)
                   ELSE IF markdown_path \notin DOMAIN fs.files
                   THEN TextReply("read_converted_markdown", TRUE,
                                  "File not found: " \o markdown_path, None)
                   ELSE TextReply("read_converted_markdown", TRUE, None, None)
    /\ UNCHANGED convVars
    /\ ServerFrame

\* call_tool("list_conversions", arguments)
ToolListConversions ==
    /\ Obtained
    /\ srv' = [srv EXCEPT !.converter = TRUE]
    /\ reply' = TextReply("list_conversions", FALSE, None, None)
    /\ UNCHANGED convVars
    /\ ServerFrame

\* call_tool("clear_cache", arguments)
ToolClearCache ==
    /\ Obtained /\ env.budget > 0
    /\ srv' = [srv EXCEPT !.converter = TRUE]
    /\ fs' = ClearCache(fs).fs
    /\ env' = [env EXCEPT !.budget = @ - 1]
    /\ reply' = TextReply("clear_cache", TRUE, None, None)
    /\ UNCHANGED <<src, last, prev, clock>>
    /\ ServerFrame

\* call_tool("get_document_metadata", arguments): the container readers
\* raise on a path that names no file and on a file that is no container.
ToolGetMetadata ==
    /\ Obtained
    /\ srv' = [srv EXCEPT !.converter = TRUE]
    /\ \E file_path \in {None, src.name, "gone.docx"} :
          LET file_type == GetFileType(file_path)
              unreadable == file_path # src.name \/ src.data = ""
          IN reply' =
                IF file_path = None
                THEN TextReply("get_document_metadata", TRUE, "file_path is required", None)
                ELSE IF file_type = None
                THEN TextReply("get_document_metadata", TRUE,
                               "Unsupported file format: " \o PathSuffix(file_path), None)
                ELSE IF unreadable
                THEN Caught("get_document_metadata",
                            IF file_type = "excel" THEN "InvalidFileException"
                            ELSE "PackageNotFoundError",
                            "Package not found at '" \o file_path \o "'")
                ELSE TextReply("get_document_metadata", TRUE, None, None)
    /\ UNCHANGED convVars
    /\ ServerFrame

\* call_tool("get_supported_formats", arguments) and call_tool of a name
\* that is no tool
ToolOther ==
    /\ Obtained
    /\ srv' = [srv EXCEPT !.converter = TRUE]
    /\ \E name \in {"get_supported_formats", "no_such_tool"} :
          reply' = IF name = "get_supported_formats"
                   THEN TextReply(name, FALSE, None, None)
                   ELSE TextReply(name, TRUE, "Unknown tool: " \o name, None)
    /\ UNCHANGED convVars
    /\ ServerFrame

(***************************************************************************)
(* The clean-up of markdown on its own: _clean_markdown applied to a text, *)
(* and again to what it gave.                                              *)
(***************************************************************************)
MaxMdLen == 6
MdAlphabet == {"a", " ", "\n", "#", "-"}

RECURSIVE MdTexts(_)
MdTexts(n) ==
    IF n = 0 THEN {""}
    ELSE LET shorter == MdTexts(n - 1)
         IN shorter \cup {s \o c : s \in shorter, c \in MdAlphabet}

MdIdle == mdIn = "" /\ mdOut = [passes |-> 0, text |-> "<idle>"]

InitClean ==
    /\ mdIn \in MdTexts(MaxMdLen)
    /\ mdOut = [passes |-> 0, text |-> mdIn]

\* markdown = self._clean_markdown(markdown)
CleanOnce ==
    /\ mdOut.passes = 0
    /\ mdOut' = [passes |-> 1, text |-> CleanMarkdown(mdIn), first |-> CleanMarkdown(mdIn)]
    /\ UNCHANGED <<mdIn, fmtVars, tableVars, convVars, procVars, pureVars, cache,
                   deckVars, srvVars>>

\* _clean_markdown on its own output
CleanAgain ==
    /\ mdOut.passes = 1
    /\ mdOut' = [mdOut EXCEPT !.passes = 2, !.text = CleanMarkdown(@)]
    /\ UNCHANGED <<mdIn, fmtVars, tableVars, convVars, procVars, pureVars, cache,
                   deckVars, srvVars>>

(***************************************************************************)
(* The parts of the state a specification leaves alone.                    *)
(***************************************************************************)
OptIdle == opt = <<>> /\ optOut = [by |-> "idle"]
ParaIdle == paraIn = <<>> /\ paraOut = [done |-> TRUE, text |-> "<idle>"]
BookIdle == book = <<>> /\ bookOut = [done |-> TRUE, parts |-> <<>>, markdown |-> "<idle>"]
PureIdle == DocTableIdle /\ OptIdle /\ ParaIdle /\ BookIdle
RestIdle == CacheIdle /\ DeckIdle /\ SrvIdle /\ MdIdle
UnitIdle == PureIdle /\ RestIdle

(***************************************************************************)
(* Specifications.                                                         *)
(***************************************************************************)
\* Repeated conversions of one source file.
Next == OfficeConvert \/ DocxConvert \/ ConvertMissing
Init == InitConv /\ FmtIdle /\ TableIdle /\ ProcIdle /\ UnitIdle
Spec == Init /\ [][Next]_vars

\* The clean-up of every short markdown text, once and twice.
NextClean == CleanOnce \/ CleanAgain
InitSpecClean ==
    InitClean /\ FmtIdle /\ TableIdle /\ ConvIdle /\ ProcIdle /\ PureIdle /\ CacheIdle
    /\ DeckIdle /\ SrvIdle
SpecClean == InitSpecClean /\ [][NextClean]_vars

\* Calls of the server's tools, in any order.
NextServer ==
    \/ ToolNoConverter \/ ToolConvertDocument \/ ToolReadMarkdown
    \/ ToolListConversions \/ ToolClearCache \/ ToolGetMetadata \/ ToolOther
InitSpecServer ==
    InitServer /\ FmtIdle /\ TableIdle /\ ProcIdle /\ PureIdle /\ CacheIdle /\ DeckIdle
    /\ MdIdle
SpecServer == InitSpecServer /\ [][NextServer]_vars

\* The presentation adapter on every small presentation.
NextDeck == ConvertDeck
InitSpecDeck ==
    InitDeck /\ FmtIdle /\ TableIdle /\ ConvIdle /\ ProcIdle /\ PureIdle /\ CacheIdle
    /\ SrvIdle /\ MdIdle
SpecDeck == InitSpecDeck /\ [][NextDeck]_vars

\* Conversions, clearings of the cache and reports of it, in any order.
NextCache == OfficeConvert \/ DocxConvert \/ ConvertMissing \/ CacheInfoCall \/ ClearCacheCall
InitSpecCache == InitCache /\ FmtIdle /\ TableIdle /\ ProcIdle /\ UnitIdle
SpecCache == InitSpecCache /\ [][NextCache]_vars

\* One conversion of a file of each kind of name.
InitSpecDispatch == InitDispatch /\ FmtIdle /\ TableIdle /\ ProcIdle /\ UnitIdle
SpecDispatch == InitSpecDispatch /\ [][Next]_vars

\* One conversion of one source file, with storage that may fail.
InitSpecOnce == InitOnce /\ FmtIdle /\ TableIdle /\ ProcIdle /\ UnitIdle
SpecOnce == InitSpecOnce /\ [][Next]_vars

\* The run formatters on one paragraph's runs.
NextFmt == FormatRunsDocx \/ FormatRunsPptx
InitSpecFmt == InitFmt /\ TableIdle /\ ConvIdle /\ ProcIdle /\ UnitIdle
SpecFmt == InitSpecFmt /\ [][NextFmt]_vars

\* The spreadsheet table renderer on one grid.
NextTable == RenderTable
InitSpecTable == InitTable /\ FmtIdle /\ ConvIdle /\ ProcIdle /\ UnitIdle
SpecTable == InitSpecTable /\ [][NextTable]_vars

\* Conversions of one source file running at the same time, and a reader.
NextConcurrent ==
    \/ \E p \in Procs : BeginConvert(p)
    \/ \E p \in Procs : OpenOutput(p)
    \/ \E p \in Procs : WriteOutput(p)
    \/ ReaderOpens
InitSpecConcurrent == InitConcurrent /\ FmtIdle /\ TableIdle /\ UnitIdle

\* The table renderers of the word and presentation adapters on one table.
NextDocTable == ProcessTableDocx \/ ExtractTablePptx
InitSpecDocTable ==
    InitDocTable /\ FmtIdle /\ TableIdle /\ ConvIdle /\ ProcIdle
    /\ OptIdle /\ ParaIdle /\ BookIdle /\ RestIdle
SpecDocTable == InitSpecDocTable /\ [][NextDocTable]_vars

\* The image optimizer on one image or one byte string.
NextOpt == OptimizeImageCall \/ OptimizeBytesCall
InitSpecOpt ==
    InitOpt /\ FmtIdle /\ TableIdle /\ ConvIdle /\ ProcIdle
    /\ DocTableIdle /\ ParaIdle /\ BookIdle /\ RestIdle
SpecOpt == InitSpecOpt /\ [][NextOpt]_vars

\* The word adapter on one paragraph.
NextPara == ProcessParagraphCall
InitSpecPara ==
    InitPara /\ FmtIdle /\ TableIdle /\ ConvIdle /\ ProcIdle
    /\ DocTableIdle /\ OptIdle /\ BookIdle /\ RestIdle
SpecPara == InitSpecPara /\ [][NextPara]_vars

\* The spreadsheet adapter on one workbook.
NextBook == ReadWorkbook
InitSpecBook ==
    InitBook /\ FmtIdle /\ TableIdle /\ ConvIdle /\ ProcIdle
    /\ DocTableIdle /\ OptIdle /\ ParaIdle /\ RestIdle
SpecBook == InitSpecBook /\ [][NextBook]_vars
SpecConcurrent == InitSpecConcurrent /\ [][NextConcurrent]_vars


(***************************************************************************)
(* The claims.                                                             *)
(***************************************************************************)
\* The failure annotations and the image references of a markdown text.
FailureNotes(markdown) == CountOccurrences(markdown, "[Image extraction failed")
ImageRefs(markdown) == CountOccurrences(markdown, "![")

\* Two calls in a row with the same entry point and the same options.
SameCallTwice ==
    /\ prev.entry # "" /\ prev.entry = last.entry
    /\ prev.exists /\ last.exists
    /\ prev.extract_images = last.extract_images
    /\ prev.image_format = last.image_format
    /\ prev.output_name = None /\ last.output_name = None

\* C1: converting the same bytes under the same name with the same options
\* and no output_name twice yields the same markdown, the same conversion
\* directory and the same output_path.
C1_Idempotent ==
    (SameCallTwice /\ prev.outcome = "returned" /\ last.outcome = "returned")
    => /\ last.result.markdown = prev.result.markdown
       /\ last.result.conversion_dir = prev.result.conversion_dir
       /\ last.result.output_path = prev.result.output_path

\* The identifier the code gives the source file when no output_name is given.
HashedId == PathStem(src.name) \o "_" \o SubSeq(GetFileHash(src.data), 1, 8)

\* C2: without an output_name the output identifier is the stem, "_" and
\* the first 8 hex digits of the hash of the source's bytes, whatever the
\* entry point and the options; and after a conversion the markdown file at
\* output_path holds exactly the markdown of that conversion.
C2_OutputIdentifier ==
    /\ (last.outcome = "returned" /\ last.output_name = None)
       => /\ last.result.conversion_dir = PathJoin(OutputDir, HashedId)
          /\ last.result.output_path =
                 PathJoin(PathJoin(OutputDir, HashedId), HashedId \o ".md")
    /\ (prev.outcome = "returned" /\ last.outcome = "returned"
        /\ prev.output_name = None /\ last.output_name = None)
       => /\ last.result.conversion_dir = prev.result.conversion_dir
          /\ last.result.output_path = prev.result.output_path
    /\ last.outcome = "returned"
       => /\ last.result.output_path \in DOMAIN fs.files
          /\ fs.files[last.result.output_path] = last.result.markdown

\* A word document converted by DocxConverter and then by OfficeConverter
\* with another image format: two different markdown texts, one location.
C2_Witness ==
    /\ prev.entry = "docx" /\ last.entry = "office"
    /\ prev.outcome = "returned" /\ last.outcome = "returned"
    /\ prev.output_name = None /\ last.output_name = None
    /\ prev.image_format # last.image_format
    /\ prev.result.markdown # "" /\ last.result.markdown # ""
    /\ prev.result.markdown # last.result.markdown
    /\ prev.result.output_path = last.result.output_path
    /\ fs.files[last.result.output_path] = last.result.markdown

\* C3: once every one of the concurrent conversions of the source has begun,
\* a reader of an output file reads the complete content one of the
\* conversions writes there, never a part of it.
C3_NoPartialRead ==
    (seen # NoRead /\ \A p \in Procs : seen.pcs[p] # "idle")
    => [path |-> seen.path, data |-> seen.data] \in planned

\* C4: OfficeConverter.convert_file on an existing file with another
\* extension than the six supported ones raises the unsupported-format
\* error, runs no adapter, writes nothing and leaves the cache as it was.
C4_UnsupportedFormat ==
    (last.entry = "office" /\ last.exists
     /\ StrLower(PathSuffix(src.name))
            \notin {".docx", ".doc", ".xlsx", ".xls", ".pptx", ".ppt"})
    => /\ last.outcome = "raised"
       /\ last.exc = "ValueError"
       /\ StartsWith(last.error, "Unsupported file format")
       /\ last.adapter = ""
       /\ last.writes = <<>>
       /\ fs = last.before

\* The first call, on a .txt file, raised and the cache is still empty.
C4_Witness ==
    /\ last.entry = "office" /\ last.exists
    /\ src.name = "r.txt"
    /\ last.exc = "ValueError"
    /\ prev = NoCall
    /\ fs = InitialFs

\* C5: a document or a presentation with three embedded images of which
\* exactly one is unreadable, converted in file mode on storage that takes
\* every write: the call returns, its images list has the two valid images
\* and the markdown has exactly one failure annotation.
C5_GracefulDegradation ==
    (/\ last.entry = "office" /\ last.exists /\ last.io = 0
     /\ last.extract_images /\ last.image_format = "file"
     /\ src.name \in {"r.docx", "r.pptx"}
     /\ CountOccurrences(src.data, "i") = 2
     /\ CountOccurrences(src.data, "x") = 1
     /\ CountOccurrences(src.data, "s") = 0)
    => /\ last.outcome = "returned"
       /\ Len(last.result.images) = 2
       /\ FailureNotes(last.result.markdown) = 1

\* C6: in every adapter an image that is no decodable raster becomes a
\* failure note of its own and the conversion returns its result.
C6_DecodeErrorLocal ==
    (/\ last.entry = "office" /\ last.exists /\ last.io = 0
     /\ last.extract_images
     /\ src.name \in {"r.docx", "r.xlsx", "r.pptx"}
     /\ CountOccurrences(src.data, "x") > 0)
    => /\ last.outcome = "returned"
       /\ FailureNotes(last.result.markdown) = CountOccurrences(src.data, "x")

\* The embedded images a conversion of the source comes across: the image
\* parts and, in a document or a presentation, the drawing without a part
\* and the picture inside the group shape.
EmbeddedImages ==
    CountOccurrences(src.data, "i") + CountOccurrences(src.data, "x")
    + (IF src.name \in {"r.docx", "r.pptx"}
       THEN CountOccurrences(src.data, "s") ELSE 0)

\* C7: with extract_images, every embedded image leaves an image reference
\* or a failure annotation in the markdown: their number is the number of
\* embedded images.
C7_NoSilentLoss ==
    (last.entry = "office" /\ last.extract_images /\ last.outcome = "returned")
    => ImageRefs(last.result.markdown) + FailureNotes(last.result.markdown)
       = EmbeddedImages

\* C8: after a successful conversion the images list has one entry per image
\* file written: its length is the number of writes, every path names a
\* file holding the data written to it, and every written file is listed
\* exactly once.
C8_ImagesMatchWrites ==
    last.outcome = "returned"
    => /\ Len(last.result.images) = Len(last.writes)
       /\ \A i \in 1..Len(last.result.images) :
             /\ last.result.images[i] \in DOMAIN fs.files
             /\ \E j \in 1..Len(last.writes) :
                   /\ last.writes[j].path = last.result.images[i]
                   /\ last.writes[j].data = fs.files[last.result.images[i]]
       /\ \A j \in 1..Len(last.writes) :
             Cardinality({i \in 1..Len(last.result.images) :
                             last.result.images[i] = last.writes[j].path}) = 1

\* Every run of the paragraph has its four flags set.
AllFlagsSet ==
    /\ fmtOut.by \in {"docx", "pptx"}
    /\ Len(fmtRuns) > 0
    /\ \A i \in 1..Len(fmtRuns) :
          /\ fmtRuns[i].bold /\ fmtRuns[i].italic
          /\ fmtRuns[i].underline /\ fmtRuns[i].strike

\* The runs' texts, each wrapped between open and close; a run without text
\* gives nothing.
EachWrapped(open, close) ==
    StrConcat([i \in 1..Len(fmtRuns) |->
                  IF fmtRuns[i].text = "" THEN ""
                  ELSE open \o fmtRuns[i].text \o close])

CellBorders(line) ==
    Cardinality({i \in 1..Len(line) :
                    /\ CharAt(line, i) = "|"
                    /\ (i = 1 \/ CharAt(line, i - 1) # "\\")})

\* The line of a row padded with empty cells to n cells.
PaddedLine(row, n) ==
    "| " \o StrJoin([j \in 1..n |-> IF j <= Len(row) THEN ExcelCellText(row[j])
                                    ELSE ""], " | ") \o " |"

\* C10: the table of a non-empty grid has one line per row and the
\* separator after the first; every line has max_row_length cells; a row's
\* line is '| ' + its cells, padded with empty ones, joined by ' | ' + ' |';
\* and the grid Name/Age, Al/30, Bo/"" renders as the four lines stated.
C10_TableShape ==
    /\ (tableOut.done /\ Len(grid) > 0)
       => LET lines == StrSplit(tableOut.text, "\n")
              n == MaxRowLen(grid)
          IN /\ Len(lines) = Len(grid) + 2
             /\ lines[Len(lines)] = ""
             /\ \A i \in 1..(Len(grid) + 1) : CellBorders(lines[i]) = n + 1
             /\ lines[2] = "| " \o StrJoin([j \in 1..n |-> "---"], " | ") \o " |"
             /\ \A r \in 1..Len(grid) :
                   lines[IF r = 1 THEN 1 ELSE r + 1] = PaddedLine(grid[r], n)
    /\ (tableOut.done /\ grid = ExampleGrid)
       => tableOut.text = "| Name | Age |\n| --- | --- |\n| Al | 30 |\n| Bo |  |\n"

\* A grid of a short row and a longer one has been rendered.
C10_Witness ==
    /\ tableOut.done
    /\ Len(grid) = 2
    /\ Len(grid[1]) = 1 /\ Len(grid[2]) = 2
    /\ Len(StrSplit(tableOut.text, "\n")) = 4

\* The lines of a rendered table: the text split at newlines, without the
\* empty piece a final newline leaves.
TableLinesOf(text) ==
    LET lines == StrSplit(text, "\n")
    IN IF Len(lines) > 0 /\ lines[Len(lines)] = ""
       THEN SubSeq(lines, 1, Len(lines) - 1) ELSE lines

\* C11: a table rendered by the word or the presentation adapter has one
\* line per row and the separator after row 0, and every line, the
\* separator included, has as many cells as the longest row of the source,
\* also when the source rows differ in their number of cells.
C11_DocTablesRectangular ==
    (tblOut.by \in {"docx", "pptx"} /\ Len(tbl) > 0)
    => LET lines == TableLinesOf(tblOut.text)
           n == MaxRowLen(tbl)
       IN /\ Len(lines) = Len(tbl) + 1
          /\ \A i \in 1..Len(lines) : CellBorders(lines[i]) = n + 1

\* The exact scale of the resize: the ratio a / b of the tighter bound to
\* the side it bounds.
ScaleByWidth(cfg, image) ==
    cfg.max_width * image.height <= cfg.max_height * image.width
ScaleNum(cfg, image) ==
    IF ScaleByWidth(cfg, image) THEN cfg.max_width ELSE cfg.max_height
ScaleDen(cfg, image) ==
    IF ScaleByWidth(cfg, image) THEN image.width ELSE image.height
Oversize(cfg, image) ==
    image.width > cfg.max_width \/ image.height > cfg.max_height

\* C12: the output for an image larger than the bounds is within both
\* bounds, each side is the original side times
\* min(max_width/width, max_height/height) rounded down, which is less
\* than one pixel below the exact product; an image within both bounds
\* keeps its size.
C12_ResizeInvariant ==
    (optOut.by = "image" /\ ~optOut.out.raised)
    => LET cfg == opt.cfg
           image == opt.image
           out == optOut.out
           a == ScaleNum(cfg, image)
           b == ScaleDen(cfg, image)
       IN IF Oversize(cfg, image)
          THEN /\ out.width <= cfg.max_width
               /\ out.height <= cfg.max_height
               /\ out.width = (image.width * a) \div b
               /\ out.height = (image.height * a) \div b
               /\ image.width * a - out.width * b < b
               /\ image.height * a - out.height * b < b
          ELSE out.width = image.width /\ out.height = image.height

\* C13: an image of a single colour, whatever its size, is found not
\* photo-like when optimize_image classifies it.
C13_SingleColorIsGraphic ==
    (/\ optOut.by = "image"
     /\ opt.force_format = None
     /\ opt.image.colors = 1
     /\ optOut.out.output_format # None)
    => optOut.out.photo = FALSE

CodecOf(output_format) ==
    CASE output_format = "webp" -> "WEBP"
      [] output_format = "png" -> "PNG"
      [] OTHER -> "JPEG"
ExtOf(codec) ==
    CASE codec = "WEBP" -> ".webp"
      [] codec = "PNG" -> ".png"
      [] OTHER -> ".jpg"

C15_OptimizeNeverFails ==
    (/\ optOut.by = "image"
     /\ opt.image.width > 0 /\ opt.image.height > 0
     /\ opt.cfg.max_width > 0 /\ opt.cfg.max_height > 0)
    => ~optOut.out.raised

\* C16: optimize_bytes on bytes that are no raster, none at all included,
\* raises the decode error of Image.open and returns no pair, and the
\* call leaves the optimizer's configuration as it was.
C16_DecodeErrorReported ==
    /\ [](optOut.by = "bytes" /\ optOut.image_bytes \in {"", BadBlob}
          => /\ optOut.out.raised
             /\ optOut.out.exc = "UnidentifiedImageError"
             /\ optOut.out.codec = None /\ optOut.out.ext = None)
    /\ [][optOut'.by = "bytes" => opt'.cfg = opt.cfg]_vars

\* optimize_bytes has been called with no bytes at all and has raised.
C16_Witness ==
    /\ optOut.by = "bytes"
    /\ optOut.image_bytes = ""
    /\ optOut.out.raised
    /\ optOut.out.exc = "UnidentifiedImageError"

\* The heading level a style name stands for: the trailing integer of a
\* "Heading" style when it is one of 1..6, and 0, a plain paragraph, for
\* every other name.
StatedLevel(style) ==
    CASE style = "Heading 1" -> 1
      [] style = "Heading1" -> 1
      [] style = "Heading 6" -> 6
      [] OTHER -> 0

\* C17: a rendered paragraph starts with '#' characters only when its
\* style is a heading style whose integer is within 1..6, and then with
\* exactly that many; a style with an unparsable level or one outside 1..6
\* gives a paragraph with no '#'.
C17_HeadingLevelClamped ==
    (paraOut.done /\ paraOut.text # "")
    => LET hashes == CountOccurrences(paraOut.text, "#")
       IN /\ hashes <= 6
          /\ hashes = StatedLevel(paraIn.style)

\* A row with something in it: a cell that is neither None nor a text
\* that is blank once trimmed.
CellIsBlank(cell) ==
    cell.k = "none" \/ (cell.k = "str" /\ StrStrip(cell.v) = "")
RowIsKept(row) == \E j \in 1..Len(row) : ~CellIsBlank(row[j])

\* C18: the parts rendered for a workbook are, sheet by sheet in workbook
\* order, one header, then the table of the rows that are not blank, in
\* their order, or for a sheet with no such row a text holding no table
\* line, then the rule; the markdown holds as many headers as sheets.
C18_SheetSections ==
    bookOut.done
    => /\ Len(bookOut.parts) = 3 * Len(book)
       /\ CountOccurrences(bookOut.markdown, "# Sheet: ") = Len(book)
       /\ \A i \in 1..Len(book) :
             LET kept == SelectSeq(book[i].rows, RowIsKept)
                 body == bookOut.parts[3 * i - 1]
             IN /\ bookOut.parts[3 * i - 2] = "# Sheet: " \o book[i].name \o "\n"
                /\ bookOut.parts[3 * i] = "\n---\n"
                /\ IF Len(kept) = 0
                   THEN CountOccurrences(body, "|") = 0
                   ELSE /\ body = CreateMarkdownTable(kept)
                        /\ Len(TableLinesOf(body)) = Len(kept) + 1

\* A sheet whose first row is blank and whose second holds the number 0
\* has been rendered: the table has the row of the 0 alone.
C18_Witness ==
    /\ bookOut.done
    /\ Len(book) = 1
    /\ book[1].rows = <<<<NoneCell, StrCell(" ")>>, <<IntCell(0)>>>>
    /\ bookOut.parts[2] = "| 0 |\n| --- |\n"

\* No line of the text ends in a blank or a tab.
NoTrailingWhitespace(text) ==
    LET lines == StrSplit(text, "\n")
    IN \A i \in 1..Len(lines) : StrRStrip(lines[i]) = lines[i]

\* C19: the markdown a conversion returns has no three newlines in a row,
\* no line ending in whitespace and no whitespace at its start or end.
C19_MarkdownNormalized ==
    (last.exists /\ last.outcome = "returned")
    => LET markdown == last.result.markdown
       IN /\ CountOccurrences(markdown, "\n\n\n") = 0
          /\ NoTrailingWhitespace(markdown)
          /\ StrStrip(markdown) = markdown

\* C20: get_file_type maps a path to "word" for .docx/.doc, "excel" for
\* .xlsx/.xls and "powerpoint" for .pptx/.ppt, comparing the final suffix
\* only and without regard to case, and to None for every other suffix;
\* OfficeConverter.convert_file hands the file to exactly the adapter of
\* that type, and rejects a file of no type before any adapter runs.
ExpectedType ==
    [n \in DispatchNames |->
        IF n \in {"a.docx", "a.doc", "a.DOCX"} THEN "word"
        ELSE IF n \in {"a.xlsx", "a.xls", "a.Xls"} THEN "excel"
        ELSE IF n \in {"a.pptx", "a.ppt", "a.PpTx", "a.txt.pptx"} THEN "powerpoint"
        ELSE None]

C20_FileTypeDispatch ==
    (last.entry = "office" /\ last.exists /\ src.name \in DispatchNames) =>
        IF ExpectedType[src.name] = None
        THEN /\ last.outcome = "raised"
             /\ last.exc = "ValueError"
             /\ last.adapter = ""
             /\ last.writes = <<>>
        ELSE /\ last.adapter = ExpectedType[src.name]
             /\ last.outcome = "returned" =>
                    last.result.file_type = ExpectedType[src.name]

C20_Witness ==
    /\ last.entry = "office" /\ last.exists
    /\ src.name = "a.PpTx"
    /\ last.outcome = "returned"
    /\ last.adapter = "powerpoint"
    /\ last.result.file_type = "powerpoint"

\* clear_cache was the last thing to touch the output directory.
JustCleared == cache.cleared.at = clock

\* C21: clear_cache removes every converted markdown file and extracted
\* image: after a clearing and until the next conversion no file written
\* by a conversion is left, get_cache_info reports total_conversions = 0
\* and total_size_bytes = 0, and the count clear_cache returned is the
\* total_conversions that get_cache_info reported immediately before it.
C21_ClearCacheRemovesAll ==
    /\ JustCleared => DOMAIN fs.files = {}
    /\ (JustCleared /\ cache.info.at = clock) =>
          cache.info.total_conversions = 0 /\ cache.info.total_size_bytes = 0
    /\ (cache.cleared.at # -1 /\ cache.cleared.before.at = cache.cleared.at - 1) =>
          cache.cleared.count = cache.cleared.before.total_conversions

\* What the optimizer gives for the readable image of the sources.
OptimizerOutputs == {OptimizeImage(PilOpen(blob, 16).image) : blob \in {GoodBlob}}

\* The write carries an optimizer output under the optimizer's extension.
IsOptimizerWrite(write) ==
    \E optimized \in OptimizerOutputs :
        write.data = optimized.data /\ EndsWith(write.path, optimized.ext)

\* The markdown embeds an image of the source byte for byte.
EmbedsSourceBytes(markdown) ==
    \E blob \in {GoodBlob, BadBlob} : CountOccurrences(markdown, Base64(blob)) > 0

\* C22: every extracted image passes through the image optimizer before it
\* is persisted: in every adapter the bytes written to an image file or
\* embedded as a data URI are the optimizer's output for that image, never
\* the source's bytes, and the file's extension is the one the optimizer
\* returned.
C22_ImagesOptimized ==
    (last.exists /\ last.extract_images) =>
        /\ \A i \in 1..Len(last.writes) : IsOptimizerWrite(last.writes[i])
        /\ last.outcome = "returned" => ~EmbedsSourceBytes(last.result.markdown)

\* The shape's extraction fails: an unreadable picture, or a shape_type raising.
ShapeFails(shape, extract_images) ==
    \/ extract_images /\ shape.shape_type = "PICTURE" /\ ~PilOpen(shape.blob, 16).ok
    \/ ShapeRaises(shape)

\* The failing shapes of the deck converted last.
FailingShapes ==
    {<<i, j>> \in (1..MaxSlides) \X (1..MaxShapes) :
        /\ i <= Len(deck.slides) /\ j <= Len(deck.slides[i].shapes)
        /\ ShapeFails(deck.slides[i].shapes[j], deck.extract_images)}

\* C23: in the presentation adapter an extraction failure on a single shape
\* (text frame, table, picture or group) is caught and becomes a failure
\* note in the slide's output; the other shapes and the later slides are
\* still converted and convert_file returns a result.
C23_ShapeFailureLocal ==
    deckOut.by = "pptx" =>
        /\ ~deckOut.raised
        /\ CountOccurrences(deckOut.markdown, "failed") = Cardinality(FailingShapes)
        /\ CountOccurrences(deckOut.markdown, "## Slide ") = Len(deck.slides)

\* References to image files and to data URIs in a markdown text.
FileRefs(markdown) == CountOccurrences(markdown, "](images/")
DataRefs(markdown) == CountOccurrences(markdown, "](data:")

\* C24: every processed image gets exactly one visible reference, in every
\* adapter alike: with image_format "file" or "both" the image file is
\* written, its path is listed in images and the markdown refers to the
\* file only; with "base64" the markdown carries the data URI only, no
\* image file is written and images stays empty.
C24_OneReferencePerImage ==
    (last.outcome = "returned" /\ last.extract_images) =>
        IF last.image_format = "base64"
        THEN /\ Len(last.result.images) = 0
             /\ Len(last.writes) = 0
             /\ FileRefs(last.result.markdown) = 0
        ELSE /\ Len(last.writes) = Len(last.result.images)
             /\ FileRefs(last.result.markdown) = Len(last.result.images)
             /\ DataRefs(last.result.markdown) = 0

\* C25: call_tool never lets an exception out: for every tool name and
\* argument map it returns one text response; a missing required argument,
\* an unknown tool name, a missing file, an unsupported extension and any
\* other failure, one while obtaining the converter included, come back as
\* a JSON object with an "error" key, and the messages of FileNotFoundError
\* and ValueError are passed on as they are.
C25_CallToolNeverRaises ==
    reply.by # "idle" =>
        /\ ~reply.propagated
        /\ reply.by = "no_such_tool" => reply.error # None
        /\ (reply.by = "convert_document" /\ ~reply.ran) => reply.error # None
        /\ (reply.ran /\ last.outcome = "raised") =>
              /\ reply.error # None
              /\ last.exc \in {"FileNotFoundError", "ValueError"} =>
                    reply.error = last.error

\* Where a reference to images/ may start in the markdown.
RefPositions(markdown) ==
    {i \in 1..(Len(markdown) - 8) : SubSeq(markdown, i, i + 8) = "](images/"}

\* The reference at position i names the written file path.
RefersTo(markdown, i, path) ==
    /\ i + 9 + Len(PathName(path)) <= Len(markdown)
    /\ SubSeq(markdown, i + 9, i + 9 + Len(PathName(path))) = PathName(path) \o ")"

PairwiseDistinct(seq) ==
    \A i, j \in 1..Len(seq) : i # j => seq[i] # seq[j]

\* C27: within one conversion no image file is overwritten by another
\* image of the same conversion: the paths in the result's images list are
\* pairwise distinct and no path is written twice, also after an image
\* whose extraction failed.
C27_ImagePathsDistinct ==
    last.outcome = "returned" =>
        /\ PairwiseDistinct(last.result.images)
        /\ PairwiseDistinct([k \in 1..Len(last.writes) |-> last.writes[k].path])

\* The last conversion wrote where the one before it wrote.
SameLocationTwice ==
    /\ prev.outcome = "returned" /\ last.outcome = "returned"
    /\ prev.result.conversion_dir = last.result.conversion_dir

\* C28: after successful conversions into the same output location the
\* image files in that conversion directory are exactly the files in the
\* images of the most recent conversion, the markdown file there holds the
\* most recent markdown, and get_cache_info's image_count for the
\* directory is the length of the latest images list.
C28_LastWriteWins ==
    SameLocationTwice =>
        /\ ImageEntries(fs, last.result.conversion_dir)
               = {last.result.images[k] : k \in 1..Len(last.result.images)}
        /\ fs.files[last.result.output_path] = last.result.markdown
        /\ ConversionInfo(fs, last.result.conversion_dir).image_count
               = Len(last.result.images)

\* C29: _resize_if_needed always gives an image at least one pixel wide and
\* one pixel high: for every image of positive width and height that
\* exceeds a bound, very flat and very tall ones included, int(width*ratio)
\* and int(height*ratio) are both at least 1.
C29_ResizedSidesPositive ==
    (/\ optOut.by = "image"
     /\ opt.image.width > 0 /\ opt.image.height > 0
     /\ Oversize(opt.cfg, opt.image))
    => optOut.size.width >= 1 /\ optOut.size.height >= 1

\* C30: _clean_markdown is idempotent: cleaning a cleaned text changes
\* nothing; in particular the stripping of trailing whitespace, which
\* comes after the collapsing of blank lines, leaves no run of three or
\* more newlines behind.
C30_CleanIdempotent ==
    /\ mdOut.passes = 2 => mdOut.text = mdOut.first
    /\ mdOut.passes = 1 => CountOccurrences(mdOut.text, "\n\n\n") = 0

====
